---------------------------- MODULE Spec2Model ----------------------------
(***************************************************************************)
(* Health-LLM-Chatbot: the safety-mediated conversation pipeline.          *)
(*                                                                         *)
(*   src/src/utils.py       sanitize_input                                 *)
(*   src/src/safety.py      RiskLevel, SafetyFilter                        *)
(*   src/src/prompts.py     PromptManager.format_conversation              *)
(*   src/src/llm_client.py  LLMClient.generate / generate_stream           *)
(*   src/src/chatbot.py     HealthChatbot.chat / chat_stream / history     *)
(*                                                                         *)
(* A text (a Python str) is a sequence of characters; a character is a     *)
(* one-character string, or a named atom such as "<LF>" or "<U+00A0>" for  *)
(* a character that has no printable ASCII form.                           *)
(***************************************************************************)
EXTENDS Integers, Sequences, FiniteSets, TLC

-----------------------------------------------------------------------------
(* Characters *)

LowerLetters ==
   <<"a","b","c","d","e","f","g","h","i","j","k","l","m",
     "n","o","p","q","r","s","t","u","v","w","x","y","z">>

UpperLetters ==
   <<"A","B","C","D","E","F","G","H","I","J","K","L","M",
     "N","O","P","Q","R","S","T","U","V","W","X","Y","Z">>

Digits == {"0","1","2","3","4","5","6","7","8","9"}

\* the characters str.isspace() and the pattern class \s accept
WhitespaceChars == {" ", "<TAB>", "<LF>", "<CR>", "<U+00A0>"}

\* utils.py:30  [\x00-\x08\x0b\x0c\x0e-\x1f\x7f-\x9f]
ControlChars == {"<NUL>", "<BEL>", "<U+007F>", "<U+0085>"}

\* the non-ASCII letters that occur in the canned texts of safety.py
OtherLetters ==
   {"<U+00AA>", "<U+00BA>", "<U+00E2>", "<U+00EF>", "<U+00F0>", "<U+0161>", "<U+0178>"}

Range(s) == {s[i] : i \in DOMAIN s}

\* the pattern class \w
WordChars == Range(LowerLetters) \cup Range(UpperLetters) \cup Digits \cup {"_"} \cup OtherLetters

\* the comparison of a pattern compiled without re.IGNORECASE
CaseSensitive(c) == c

\* str.lower() on one character (what re.IGNORECASE compares)
Lower(c) ==
   IF \E i \in DOMAIN UpperLetters : UpperLetters[i] = c
   THEN LowerLetters[CHOOSE i \in DOMAIN UpperLetters : UpperLetters[i] = c]
   ELSE c

\* the code point order of the lower-case letters, which is all str comparison of
\* the RiskLevel values needs
Ord(c) == CHOOSE i \in DOMAIN LowerLetters : LowerLetters[i] = c

\* Python's a < b on two str of lower-case letters
RECURSIVE StrLess(_, _)
StrLess(a, b) ==
   IF b = <<>> THEN FALSE
   ELSE IF a = <<>> THEN TRUE
   ELSE IF Head(a) # Head(b) THEN Ord(Head(a)) < Ord(Head(b))
   ELSE StrLess(Tail(a), Tail(b))

\* Python's `needle in text` on str
Contains(text, needle) ==
   \E i \in 0..(Len(text) - Len(needle)) :
      \A j \in 1..Len(needle) : text[i + j] = needle[j]

-----------------------------------------------------------------------------
(* Regular expressions: re.compile(p, re.IGNORECASE).search(text).          *)
(* A pattern is a sequence of nodes.                                      *)

Lit(c)      == [k |-> "lit", c |-> c]
OneOf(cs)   == [k |-> "set", cs |-> cs]
Space       == [k |-> "cls", c |-> "s"]
Digit       == [k |-> "cls", c |-> "d"]
Word        == [k |-> "cls", c |-> "w"]
AnyChar     == [k |-> "cls", c |-> "."]
WordBoundary == [k |-> "b"]
Group(alts) == [k |-> "grp", alts |-> alts]
Star(n)     == [k |-> "rep", n |-> n, min |-> 0, max |-> -1]
Plus(n)     == [k |-> "rep", n |-> n, min |-> 1, max |-> -1]
Opt(n)      == [k |-> "rep", n |-> n, min |-> 0, max |-> 1]
Str(s)      == [i \in DOMAIN s |-> Lit(s[i])]

InClass(cls, c) ==
   CASE cls = "s" -> c \in WhitespaceChars
     [] cls = "d" -> c \in Digits
     [] cls = "w" -> c \in WordChars
     [] cls = "." -> c # "<LF>"

\* whether position i of text (1-based) holds a word character
IsWordAt(text, i) == i >= 1 /\ i <= Len(text) /\ text[i] \in WordChars

\* MatchEnds(p, text, i): every j such that p matches text[i..j-1]
RECURSIVE MatchEnds(_, _, _)
RECURSIVE NodeEnds(_, _, _)
RECURSIVE RepEnds(_, _, _, _)

MatchEnds(p, text, i) ==
   IF p = <<>> THEN {i}
   ELSE UNION { MatchEnds(Tail(p), text, j) : j \in NodeEnds(Head(p), text, i) }

NodeEnds(n, text, i) ==
   CASE n.k = "lit" -> IF i <= Len(text) /\ Lower(text[i]) = Lower(n.c) THEN {i + 1} ELSE {}
     [] n.k = "set" -> IF i <= Len(text) /\ Lower(text[i]) \in n.cs THEN {i + 1} ELSE {}
     [] n.k = "cls" -> IF i <= Len(text) /\ InClass(n.c, text[i]) THEN {i + 1} ELSE {}
     [] n.k = "b"   -> IF IsWordAt(text, i - 1) # IsWordAt(text, i) THEN {i} ELSE {}
     [] n.k = "grp" -> UNION { MatchEnds(n.alts[a], text, i) : a \in DOMAIN n.alts }
     [] n.k = "rep" -> RepEnds(n, text, {i}, 0)

\* the positions reached by count or more repetitions of n.n from the frontier
RepEnds(n, text, frontier, count) ==
   LET here == IF count >= n.min THEN frontier ELSE {}
   IN  IF frontier = {} \/ count = n.max THEN here
       ELSE here \cup RepEnds(n, text,
                              UNION { NodeEnds(n.n, text, j) : j \in frontier }, count + 1)

\* pattern.search(text) is not None
Search(p, text) == \E i \in 1..(Len(text) + 1) : MatchEnds(p, text, i) # {}

\* safety.py:47  EMERGENCY_KEYWORDS
EMERGENCY_KEYWORDS ==
   \* r"\b(chest\s*pain)\b"
   << <<WordBoundary>>
      \o <<Group(<<Str(<<"c","h","e","s","t">>) \o <<Star(Space)>> \o Str(<<"p","a","i","n">>)>>)>>
      \o <<WordBoundary>>,
   \* r"\b(can'?t\s*breathe|difficulty\s*breathing|shortness\s*of\s*breath)\b"
      <<WordBoundary>>
      \o <<Group(<< Str(<<"c","a","n">>) \o <<Opt(Lit("'"))>> \o Str(<<"t">>) \o <<Star(Space)>> \o Str(<<"b","r","e","a","t","h","e">>),
          Str(<<"d","i","f","f","i","c","u","l","t","y">>) \o <<Star(Space)>> \o Str(<<"b","r","e","a","t","h","i","n","g">>),
          Str(<<"s","h","o","r","t","n","e","s","s">>) \o <<Star(Space)>> \o Str(<<"o","f">>) \o <<Star(Space)>> \o Str(<<"b","r","e","a","t","h">>) >>)>>
      \o <<WordBoundary>>,
   \* r"\b(stroke|heart\s*attack)\b"
      <<WordBoundary>>
      \o <<Group(<< Str(<<"s","t","r","o","k","e">>),
          Str(<<"h","e","a","r","t">>) \o <<Star(Space)>> \o Str(<<"a","t","t","a","c","k">>) >>)>>
      \o <<WordBoundary>>,
   \* r"\b(unconscious|passed\s*out|fainted)\b"
      <<WordBoundary>>
      \o <<Group(<< Str(<<"u","n","c","o","n","s","c","i","o","u","s">>),
          Str(<<"p","a","s","s","e","d">>) \o <<Star(Space)>> \o Str(<<"o","u","t">>),
          Str(<<"f","a","i","n","t","e","d">>) >>)>>
      \o <<WordBoundary>>,
   \* r"\b(severe\s*bleeding|won'?t\s*stop\s*bleeding)\b"
      <<WordBoundary>>
      \o <<Group(<< Str(<<"s","e","v","e","r","e">>) \o <<Star(Space)>> \o Str(<<"b","l","e","e","d","i","n","g">>),
          Str(<<"w","o","n">>) \o <<Opt(Lit("'"))>> \o Str(<<"t">>) \o <<Star(Space)>> \o Str(<<"s","t","o","p">>) \o <<Star(Space)>> \o Str(<<"b","l","e","e","d","i","n","g">>) >>)>>
      \o <<WordBoundary>>,
   \* r"\b(overdose|poison)\b"
      <<WordBoundary>>
      \o <<Group(<< Str(<<"o","v","e","r","d","o","s","e">>),
          Str(<<"p","o","i","s","o","n">>) >>)>>
      \o <<WordBoundary>>,
   \* r"\b(suicid|kill\s*(my)?self|end\s*(my)?\s*life)\b"
      <<WordBoundary>>
      \o <<Group(<< Str(<<"s","u","i","c","i","d">>),
          Str(<<"k","i","l","l">>) \o <<Star(Space)>> \o <<Opt(Group(<<Str(<<"m","y">>)>>))>> \o Str(<<"s","e","l","f">>),
          Str(<<"e","n","d">>) \o <<Star(Space)>> \o <<Opt(Group(<<Str(<<"m","y">>)>>))>> \o <<Star(Space)>> \o Str(<<"l","i","f","e">>) >>)>>
      \o <<WordBoundary>>,
   \* r"\b(anaphyla|allergic\s*shock)\b"
      <<WordBoundary>>
      \o <<Group(<< Str(<<"a","n","a","p","h","y","l","a">>),
          Str(<<"a","l","l","e","r","g","i","c">>) \o <<Star(Space)>> \o Str(<<"s","h","o","c","k">>) >>)>>
      \o <<WordBoundary>>,
   \* r"\b(seizure|convulsion)\b"
      <<WordBoundary>>
      \o <<Group(<< Str(<<"s","e","i","z","u","r","e">>),
          Str(<<"c","o","n","v","u","l","s","i","o","n">>) >>)>>
      \o <<WordBoundary>> >>

\* safety.py:60  MEDICATION_KEYWORDS
MEDICATION_KEYWORDS ==
   \* r"\b(prescribe|prescription)\b"
   << <<WordBoundary>>
      \o <<Group(<< Str(<<"p","r","e","s","c","r","i","b","e">>),
          Str(<<"p","r","e","s","c","r","i","p","t","i","o","n">>) >>)>>
      \o <<WordBoundary>>,
   \* r"\b(what\s*(medication|drug|medicine)\s*should\s*i\s*take)\b"
      <<WordBoundary>>
      \o <<Group(<<Str(<<"w","h","a","t">>) \o <<Star(Space)>> \o <<Group(<<Str(<<"m","e","d","i","c","a","t","i","o","n">>), Str(<<"d","r","u","g">>), Str(<<"m","e","d","i","c","i","n","e">>)>>)>> \o <<Star(Space)>> \o Str(<<"s","h","o","u","l","d">>) \o <<Star(Space)>> \o Str(<<"i">>) \o <<Star(Space)>> \o Str(<<"t","a","k","e">>)>>)>>
      \o <<WordBoundary>>,
   \* r"\b(dosage|how\s*much\s*should\s*i\s*take)\b"
      <<WordBoundary>>
      \o <<Group(<< Str(<<"d","o","s","a","g","e">>),
          Str(<<"h","o","w">>) \o <<Star(Space)>> \o Str(<<"m","u","c","h">>) \o <<Star(Space)>> \o Str(<<"s","h","o","u","l","d">>) \o <<Star(Space)>> \o Str(<<"i">>) \o <<Star(Space)>> \o Str(<<"t","a","k","e">>) >>)>>
      \o <<WordBoundary>>,
   \* r"\b(can\s*i\s*take|is\s*it\s*safe\s*to\s*take)\b.*\b(mg|milligram)\b"
      <<WordBoundary>>
      \o <<Group(<< Str(<<"c","a","n">>) \o <<Star(Space)>> \o Str(<<"i">>) \o <<Star(Space)>> \o Str(<<"t","a","k","e">>),
          Str(<<"i","s">>) \o <<Star(Space)>> \o Str(<<"i","t">>) \o <<Star(Space)>> \o Str(<<"s","a","f","e">>) \o <<Star(Space)>> \o Str(<<"t","o">>) \o <<Star(Space)>> \o Str(<<"t","a","k","e">>) >>)>>
      \o <<WordBoundary>>
      \o <<Star(AnyChar)>>
      \o <<WordBoundary>>
      \o <<Group(<< Str(<<"m","g">>),
          Str(<<"m","i","l","l","i","g","r","a","m">>) >>)>>
      \o <<WordBoundary>> >>

\* safety.py:68  DIAGNOSIS_KEYWORDS
DIAGNOSIS_KEYWORDS ==
   \* r"\b(do\s*i\s*have|what\s*do\s*i\s*have)\b"
   << <<WordBoundary>>
      \o <<Group(<< Str(<<"d","o">>) \o <<Star(Space)>> \o Str(<<"i">>) \o <<Star(Space)>> \o Str(<<"h","a","v","e">>),
          Str(<<"w","h","a","t">>) \o <<Star(Space)>> \o Str(<<"d","o">>) \o <<Star(Space)>> \o Str(<<"i">>) \o <<Star(Space)>> \o Str(<<"h","a","v","e">>) >>)>>
      \o <<WordBoundary>>,
   \* r"\b(diagnose|diagnosis)\b"
      <<WordBoundary>>
      \o <<Group(<< Str(<<"d","i","a","g","n","o","s","e">>),
          Str(<<"d","i","a","g","n","o","s","i","s">>) >>)>>
      \o <<WordBoundary>>,
   \* r"\b(is\s*this|is\s*it)\s*(cancer|serious|dangerous)\b"
      <<WordBoundary>>
      \o <<Group(<< Str(<<"i","s">>) \o <<Star(Space)>> \o Str(<<"t","h","i","s">>),
          Str(<<"i","s">>) \o <<Star(Space)>> \o Str(<<"i","t">>) >>)>>
      \o <<Star(Space)>>
      \o <<Group(<< Str(<<"c","a","n","c","e","r">>),
          Str(<<"s","e","r","i","o","u","s">>),
          Str(<<"d","a","n","g","e","r","o","u","s">>) >>)>>
      \o <<WordBoundary>>,
   \* r"\b(what'?s\s*wrong\s*with\s*me)\b"
      <<WordBoundary>>
      \o <<Group(<<Str(<<"w","h","a","t">>) \o <<Opt(Lit("'"))>> \o Str(<<"s">>) \o <<Star(Space)>> \o Str(<<"w","r","o","n","g">>) \o <<Star(Space)>> \o Str(<<"w","i","t","h">>) \o <<Star(Space)>> \o Str(<<"m","e">>)>>)>>
      \o <<WordBoundary>> >>

\* safety.py:76  MENTAL_HEALTH_CRISIS_KEYWORDS
MENTAL_HEALTH_CRISIS_KEYWORDS ==
   \* r"\b(want\s*to\s*die|want\s*to\s*end\s*it)\b"
   << <<WordBoundary>>
      \o <<Group(<< Str(<<"w","a","n","t">>) \o <<Star(Space)>> \o Str(<<"t","o">>) \o <<Star(Space)>> \o Str(<<"d","i","e">>),
          Str(<<"w","a","n","t">>) \o <<Star(Space)>> \o Str(<<"t","o">>) \o <<Star(Space)>> \o Str(<<"e","n","d">>) \o <<Star(Space)>> \o Str(<<"i","t">>) >>)>>
      \o <<WordBoundary>>,
   \* r"\b(self[- ]?harm|cut(ting)?\s*myself)\b"
      <<WordBoundary>>
      \o <<Group(<< Str(<<"s","e","l","f">>) \o <<Opt(OneOf({"-"," "}))>> \o Str(<<"h","a","r","m">>),
          Str(<<"c","u","t">>) \o <<Opt(Group(<<Str(<<"t","i","n","g">>)>>))>> \o <<Star(Space)>> \o Str(<<"m","y","s","e","l","f">>) >>)>>
      \o <<WordBoundary>>,
   \* r"\b(hopeless|no\s*point\s*(in\s*living)?)\b"
      <<WordBoundary>>
      \o <<Group(<< Str(<<"h","o","p","e","l","e","s","s">>),
          Str(<<"n","o">>) \o <<Star(Space)>> \o Str(<<"p","o","i","n","t">>) \o <<Star(Space)>> \o <<Opt(Group(<<Str(<<"i","n">>) \o <<Star(Space)>> \o Str(<<"l","i","v","i","n","g">>)>>))>> >>)>>
      \o <<WordBoundary>>,
   \* r"\b(nobody\s*cares|better\s*off\s*dead)\b"
      <<WordBoundary>>
      \o <<Group(<< Str(<<"n","o","b","o","d","y">>) \o <<Star(Space)>> \o Str(<<"c","a","r","e","s">>),
          Str(<<"b","e","t","t","e","r">>) \o <<Star(Space)>> \o Str(<<"o","f","f">>) \o <<Star(Space)>> \o Str(<<"d","e","a","d">>) >>)>>
      \o <<WordBoundary>> >>

\* safety.py:84  HARMFUL_KEYWORDS
HARMFUL_KEYWORDS ==
   \* r"\b(how\s*to\s*(hurt|harm|poison))\b"
   << <<WordBoundary>>
      \o <<Group(<<Str(<<"h","o","w">>) \o <<Star(Space)>> \o Str(<<"t","o">>) \o <<Star(Space)>> \o <<Group(<<Str(<<"h","u","r","t">>), Str(<<"h","a","r","m">>), Str(<<"p","o","i","s","o","n">>)>>)>>>>)>>
      \o <<WordBoundary>>,
   \* r"\b(dangerous\s*combination)\b"
      <<WordBoundary>>
      \o <<Group(<<Str(<<"d","a","n","g","e","r","o","u","s">>) \o <<Star(Space)>> \o Str(<<"c","o","m","b","i","n","a","t","i","o","n">>)>>)>>
      \o <<WordBoundary>>,
   \* r"\b(make\s*(myself|me)\s*sick)\b"
      <<WordBoundary>>
      \o <<Group(<<Str(<<"m","a","k","e">>) \o <<Star(Space)>> \o <<Group(<<Str(<<"m","y","s","e","l","f">>), Str(<<"m","e">>)>>)>> \o <<Star(Space)>> \o Str(<<"s","i","c","k">>)>>)>>
      \o <<WordBoundary>> >>

\* safety.py:177
dosage_pattern ==
   \* r'\b(take|use)\s+\d+\s*(mg|ml|tablet|pill|capsule)'
      <<WordBoundary>>
      \o <<Group(<< Str(<<"t","a","k","e">>),
          Str(<<"u","s","e">>) >>)>>
      \o <<Plus(Space)>>
      \o <<Plus(Digit)>>
      \o <<Star(Space)>>
      \o <<Group(<< Str(<<"m","g">>),
          Str(<<"m","l">>),
          Str(<<"t","a","b","l","e","t">>),
          Str(<<"p","i","l","l">>),
          Str(<<"c","a","p","s","u","l","e">>) >>)>>

\* safety.py:187
diagnosis_pattern ==
   \* r'\b(you\s+(have|definitely\s+have|probably\s+have))\s+\w+'
      <<WordBoundary>>
      \o <<Group(<<Str(<<"y","o","u">>) \o <<Plus(Space)>> \o <<Group(<<Str(<<"h","a","v","e">>), Str(<<"d","e","f","i","n","i","t","e","l","y">>) \o <<Plus(Space)>> \o Str(<<"h","a","v","e">>), Str(<<"p","r","o","b","a","b","l","y">>) \o <<Plus(Space)>> \o Str(<<"h","a","v","e">>)>>)>>>>)>>
      \o <<Plus(Space)>>
      \o <<Plus(Word)>>

CrisisScript ==
   <<"<U+00F0>","<U+0178>","<U+2020>","<U+02DC>"," ","*","*","I","'","m"," ","c","o","n","c","e",
   "r","n","e","d"," ","a","b","o","u","t"," ","y","o","u",".","*","*","<LF>","<LF>","I","f"," ",
   "y","o","u","'","r","e"," ","h","a","v","i","n","g"," ","t","h","o","u","g","h","t","s"," ",
   "o","f"," ","s","u","i","c","i","d","e"," ","o","r"," ","s","e","l","f","-","h","a","r","m",
   ","," ","p","l","e","a","s","e"," ","r","e","a","c","h"," ","o","u","t"," ","f","o","r"," ",
   "h","e","l","p"," ","r","i","g","h","t"," ","n","o","w",":","<LF>","<LF>","*","*","N","a","t",
   "i","o","n","a","l"," ","S","u","i","c","i","d","e"," ","P","r","e","v","e","n","t","i","o",
   "n"," ","L","i","f","e","l","i","n","e",":","*","*"," ","9","8","8"," ","(","U","S",")",
   "<LF>","*","*","C","r","i","s","i","s"," ","T","e","x","t"," ","L","i","n","e",":","*","*",
   " ","T","e","x","t"," ","H","O","M","E"," ","t","o"," ","7","4","1","7","4","1","<LF>","*",
   "*","I","n","t","e","r","n","a","t","i","o","n","a","l"," ","A","s","s","o","c","i","a","t",
   "i","o","n"," ","f","o","r"," ","S","u","i","c","i","d","e"," ","P","r","e","v","e","n","t",
   "i","o","n",":","*","*"," ","h","t","t","p","s",":","/","/","w","w","w",".","i","a","s","p",
   ".","i","n","f","o","/","r","e","s","o","u","r","c","e","s","/","C","r","i","s","i","s","_",
   "C","e","n","t","r","e","s","/","<LF>","<LF>","Y","o","u","'","r","e"," ","n","o","t"," ","a",
   "l","o","n","e",","," ","a","n","d"," ","t","h","e","r","e"," ","a","r","e"," ","p","e","o",
   "p","l","e"," ","w","h","o"," ","w","a","n","t"," ","t","o"," ","h","e","l","p","."," ","P",
   "l","e","a","s","e"," ","t","a","l","k"," ","t","o"," ","s","o","m","e","o","n","e","."," ",
   "<U+00F0>","<U+0178>","<U+2019>","<U+2122>">>

EmergencyScript ==
   <<"<U+00F0>","<U+0178>","<U+0161>","<U+00A8>"," ","*","*","T","h","i","s"," ","s","o","u","n",
   "d","s"," ","l","i","k","e"," ","i","t"," ","c","o","u","l","d"," ","b","e"," ","a"," ","m",
   "e","d","i","c","a","l"," ","e","m","e","r","g","e","n","c","y",".","*","*","<LF>","<LF>","P",
   "l","e","a","s","e"," ","*","*","c","a","l","l"," ","9","1","1","*","*"," ","(","o","r"," ",
   "y","o","u","r"," ","l","o","c","a","l"," ","e","m","e","r","g","e","n","c","y"," ","n","u",
   "m","b","e","r",")"," ","o","r"," ","*","*","g","o"," ","t","o"," ","t","h","e"," ","n","e",
   "a","r","e","s","t"," ","e","m","e","r","g","e","n","c","y"," ","r","o","o","m"," ","i","m",
   "m","e","d","i","a","t","e","l","y","*","*",".","<LF>","<LF>","I","f"," ","s","o","m","e","o",
   "n","e"," ","i","s"," ","w","i","t","h"," ","y","o","u",","," ","h","a","v","e"," ","t","h",
   "e","m"," ","h","e","l","p"," ","y","o","u"," ","g","e","t"," ","e","m","e","r","g","e","n",
   "c","y"," ","c","a","r","e",".","<LF>","<LF>","D","o"," ","n","o","t"," ","w","a","i","t"," ",
   "t","o"," ","s","e","e"," ","i","f"," ","s","y","m","p","t","o","m","s"," ","i","m","p","r",
   "o","v","e","."," ","T","i","m","e"," ","i","s"," ","c","r","i","t","i","c","a","l"," ","i",
   "n"," ","m","e","d","i","c","a","l"," ","e","m","e","r","g","e","n","c","i","e","s",".",
   "<LF>","<LF>","*","*","E","m","e","r","g","e","n","c","y"," ","c","o","n","t","a","c","t","s",
   ":","*","*","<LF>","-"," ","<U+00F0>","<U+0178>","<U+2021>","<U+00BA>","<U+00F0>","<U+0178>",
   "<U+2021>","<U+00B8>"," ","U","S",":"," ","9","1","1","<LF>","-"," ","<U+00F0>","<U+0178>",
   "<U+2021>","<U+00AC>","<U+00F0>","<U+0178>","<U+2021>","<U+00A7>"," ","U","K",":"," ","9","9",
   "9","<LF>","-"," ","<U+00F0>","<U+0178>","<U+2021>","<U+00AA>","<U+00F0>","<U+0178>",
   "<U+2021>","<U+00BA>"," ","E","U",":"," ","1","1","2","<LF>","-"," ","<U+00F0>","<U+0178>",
   "<U+2021>","<U+00A6>","<U+00F0>","<U+0178>","<U+2021>","<U+00BA>"," ","A","U",":"," ","0","0",
   "0">>

Disclaimer_LOW ==
   <<>>

Disclaimer_MEDIUM ==
   <<"<LF>","<LF>","-","-","-","<LF>","<U+00F0>","<U+0178>","<U+201C>","<U+2039>"," ","*","R",
   "e","m","e","m","b","e","r",":"," ","T","h","i","s"," ","i","s"," ","g","e","n","e","r","a",
   "l"," ","i","n","f","o","r","m","a","t","i","o","n"," ","o","n","l","y","."," ","P","l","e",
   "a","s","e"," ","c","o","n","s","u","l","t"," ","a"," ","h","e","a","l","t","h","c","a","r",
   "e"," ","p","r","o","v","i","d","e","r"," ","f","o","r"," ","p","e","r","s","o","n","a","l",
   "i","z","e","d"," ","m","e","d","i","c","a","l"," ","a","d","v","i","c","e",".","*">>

Disclaimer_HIGH ==
   <<"<LF>","<LF>","-","-","-","<LF>","<U+00E2>","<U+0161>","<U+00A0>","<U+00EF>","<U+00B8>"," ",
   "*","*","I","m","p","o","r","t","a","n","t",":","*","*"," ","T","h","i","s"," ","i","n","f",
   "o","r","m","a","t","i","o","n"," ","i","s"," ","n","o","t"," ","a"," ","s","u","b","s","t",
   "i","t","u","t","e"," ","f","o","r"," ","p","r","o","f","e","s","s","i","o","n","a","l"," ",
   "m","e","d","i","c","a","l"," ","a","d","v","i","c","e","."," ","P","l","e","a","s","e"," ",
   "c","o","n","s","u","l","t"," ","a"," ","d","o","c","t","o","r"," ","o","r"," ","h","e","a",
   "l","t","h","c","a","r","e"," ","p","r","o","v","i","d","e","r",","," ","e","s","p","e","c",
   "i","a","l","l","y"," ","i","f"," ","y","o","u","r"," ","s","y","m","p","t","o","m","s"," ",
   "a","r","e"," ","s","e","v","e","r","e"," ","o","r"," ","c","o","n","c","e","r","n","i","n",
   "g",".">>

Disclaimer_EMERGENCY ==
   <<>>

RephraseMessage ==
   <<"I"," ","d","i","d","n","'","t"," ","c","a","t","c","h"," ","t","h","a","t","."," ","C","o",
   "u","l","d"," ","y","o","u"," ","p","l","e","a","s","e"," ","r","e","p","h","r","a","s","e",
   " ","y","o","u","r"," ","q","u","e","s","t","i","o","n","?">>

FallbackMessage ==
   <<"I","'","m"," ","h","a","v","i","n","g"," ","t","r","o","u","b","l","e"," ","c","o","n","n",
   "e","c","t","i","n","g"," ","t","o"," ","m","y"," ","b","r","a","i","n"," ","r","i","g","h",
   "t"," ","n","o","w","."," ","P","l","e","a","s","e"," ","t","r","y"," ","a","g","a","i","n",
   " ","i","n"," ","a"," ","m","o","m","e","n","t",".">>

UnexpectedMessage ==
   <<"I"," ","e","n","c","o","u","n","t","e","r","e","d"," ","a","n"," ","u","n","e","x","p","e",
   "c","t","e","d"," ","e","r","r","o","r","."," ","P","l","e","a","s","e"," ","t","r","y"," ",
   "a","g","a","i","n",".">>

ErrorPrefix ==
   <<"<LF>","<LF>","*","E","r","r","o","r"," ","o","c","c","u","r","r","e","d",":"," ">>

ErrorSuffix ==
   <<"*">>

Ellipsis ==
   <<".",".",".">>

NotConfiguredMsg ==
   <<"G","e","m","i","n","i"," ","A","P","I"," ","k","e","y"," ","n","o","t"," ","c","o","n","f",
   "i","g","u","r","e","d">>

GenerateErrPrefix ==
   <<"F","a","i","l","e","d"," ","t","o"," ","g","e","n","e","r","a","t","e"," ","r","e","s","p",
   "o","n","s","e",":"," ">>

StreamErrPrefix ==
   <<"S","t","r","e","a","m","i","n","g"," ","e","r","r","o","r",":"," ">>

InHeadache ==
   <<"W","h","a","t"," ","c","a","u","s","e","s"," ","h","e","a","d","a","c","h","e","s","?">>

InChestPain ==
   <<"I"," ","h","a","v","e"," ","s","e","v","e","r","e"," ","C","H","E","S","T"," ","P","A","I",
   "N">>

InStroke ==
   <<" ","h","a","d"," ","a","<BEL>"," ","S","t","r","o","k","e","<LF>">>

InWantToDie ==
   <<"I"," ","w","a","n","t"," ","t","o"," ","d","i","e">>

InHurt ==
   <<"h","o","w"," ","t","o"," ","h","u","r","t"," ","s","o","m","e","o","n","e">>

InDosage ==
   <<"W","h","a","t"," ","d","o","s","a","g","e"," ","o","f"," ","i","b","u","p","r","o","f","e",
   "n"," ","s","h","o","u","l","d"," ","I"," ","t","a","k","e","?">>

InBlank ==
   <<" ","<TAB>","<NUL>">>

OutRest ==
   <<"R","e","s","t"," ","w","e","l","l",".">>

OutDosage ==
   <<"T","a","k","e"," ","2","0","0"," ","m","g">>

ChunkA ==
   <<"R","e","s","t"," ">>

ChunkB ==
   <<"w","e","l","l",".">>

ProviderErrMsg ==
   <<"5","0","3"," ","U","N","A","V","A","I","L","A","B","L","E">>

RetryErrMsg ==
   <<"R","e","t","r","y","E","r","r","o","r","[","<","F","u","t","u","r","e"," ","s","t","a","t",
   "e","=","f","i","n","i","s","h","e","d"," ","r","a","i","s","e","d"," ","L","L","M","C","l",
   "i","e","n","t","E","r","r","o","r",">","]">>

FaultMsg ==
   <<"i","n","t","e","r","n","a","l"," ","f","a","i","l","u","r","e">>

-----------------------------------------------------------------------------
(* Texts given to the SafetyFilter methods directly *)

\* a user text that matches no pattern group
PhNeutral ==
   <<"s","o","r","e"," ","t","h","r","o","a","t">>

\* matches EMERGENCY_KEYWORDS
PhEmergency ==
   <<"C","h","e","s","t"," ","P","a","i","n">>

\* matches MENTAL_HEALTH_CRISIS_KEYWORDS
PhCrisis ==
   <<"h","o","p","e","l","e","s","s">>

\* matches HARMFUL_KEYWORDS
PhHarmful ==
   <<"h","o","w"," ","t","o"," ","h","a","r","m">>

\* matches MEDICATION_KEYWORDS
PhMedication ==
   <<"d","o","s","a","g","e">>

\* matches DIAGNOSIS_KEYWORDS
PhDiagnosis ==
   <<"d","i","a","g","n","o","s","e">>

\* an LLM text that matches diagnosis_pattern
OutDiagnosis ==
   <<"Y","o","u"," ","h","a","v","e"," ","d","i","a","b","e","t","e","s">>

\* an LLM text that matches dosage_pattern and diagnosis_pattern
OutBoth ==
   <<"Y","o","u"," ","p","r","o","b","a","b","l","y"," ","h","a","v","e"," ","f","l","u","."," ",
   "T","a","k","e"," ","2"," ","p","i","l","l","s">>

-----------------------------------------------------------------------------
(* utils.py: sanitize_input *)

\* utils.py:36  max_length = 1000
max_length == 1000

\* str.split(): the maximal runs of non-whitespace characters
RECURSIVE split(_)
split(text) ==
   IF text = <<>> THEN <<>>
   ELSE IF Head(text) \in WhitespaceChars THEN split(Tail(text))
   ELSE LET stops == {i \in 2..Len(text) : text[i] \in WhitespaceChars}
            n == IF stops = {} THEN Len(text) + 1
                 ELSE CHOOSE i \in stops : \A j \in stops : i <= j
        IN  <<SubSeq(text, 1, n - 1)>> \o split(SubSeq(text, n, Len(text)))

\* sep.join(words)
RECURSIVE join(_, _)
join(sep, words) ==
   IF words = <<>> THEN <<>>
   ELSE IF Len(words) = 1 THEN words[1]
   ELSE words[1] \o sep \o join(sep, Tail(words))

\* str.strip()
RECURSIVE strip(_)
strip(text) ==
   IF text = <<>> THEN <<>>
   ELSE IF Head(text) \in WhitespaceChars THEN strip(Tail(text))
   ELSE IF text[Len(text)] \in WhitespaceChars THEN strip(SubSeq(text, 1, Len(text) - 1))
   ELSE text

\* re.sub(r'[\x00-\x08\x0b\x0c\x0e-\x1f\x7f-\x9f]', '', text)
RemoveControl(text) == SelectSeq(text, LAMBDA c : c \notin ControlChars)

\* sanitize_input with the whitespace normalised (utils.py:33) before the control
\* characters are removed (utils.py:30)
sanitize_input_normalize_first(text) ==
   IF text = <<>> THEN <<>>
   ELSE LET t1 == join(<<" ">>, split(text))
            t2 == RemoveControl(t1)
            t3 == IF Len(t2) > max_length
                  THEN SubSeq(t2, 1, max_length) \o Ellipsis
                  ELSE t2
        IN  strip(t3)

\* sanitize_input, utils.py:24-41
sanitize_input(text) ==
   IF text = <<>> THEN <<>>
   ELSE LET t1 == RemoveControl(text)
            t2 == join(<<" ">>, split(t1))
            t3 == IF Len(t2) > max_length
                  THEN SubSeq(t2, 1, max_length) \o Ellipsis
                  ELSE t2
        IN  strip(t3)

-----------------------------------------------------------------------------
(* safety.py: RiskLevel, SafetyCheck, SafetyFilter *)

\* class RiskLevel(str, Enum), in declaration order
RiskLevel == <<"LOW", "MEDIUM", "HIGH", "EMERGENCY">>


\* the str value of each member
RiskValue(level) ==
   CASE level = "LOW"       -> <<"l","o","w">>
     [] level = "MEDIUM"    -> <<"m","e","d","i","u","m">>
     [] level = "HIGH"      -> <<"h","i","g","h">>
     [] level = "EMERGENCY" -> <<"e","m","e","r","g","e","n","c","y">>

\* list(RiskLevel).index(x)
RiskIndex(level) == CHOOSE i \in DOMAIN RiskLevel : RiskLevel[i] = level

\* max(a, b) on two RiskLevel members: RiskLevel mixes in str, so > is str's
\* comparison of the values; max returns its first argument unless the second is greater
max(a, b) == IF StrLess(RiskValue(a), RiskValue(b)) THEN b ELSE a

\* safety.py:142 without its key argument
max_without_key(a, b) == max(a, b)

\* max(a, b, key=lambda x: list(RiskLevel).index(x))
max_by_index(a, b) == IF RiskIndex(b) > RiskIndex(a) THEN b ELSE a

SafetyCheck(is_safe, risk_level, flags) ==
   [is_safe |-> is_safe, risk_level |-> risk_level, flags |-> flags]

\* SafetyFilter._check_patterns
check_patterns(text, patterns) == \E i \in DOMAIN patterns : Search(patterns[i], text)

\* check_input without the flags.append of safety.py:134
check_input_crisis_unflagged(en, text) ==
   IF ~en THEN SafetyCheck(TRUE, "LOW", <<>>)
   ELSE
   LET e  == check_patterns(text, EMERGENCY_KEYWORDS)
       mh == check_patterns(text, MENTAL_HEALTH_CRISIS_KEYWORDS)
       h  == check_patterns(text, HARMFUL_KEYWORDS)
       m  == check_patterns(text, MEDICATION_KEYWORDS)
       d  == check_patterns(text, DIAGNOSIS_KEYWORDS)
       f1 == IF e THEN <<"EMERGENCY">> ELSE <<>>
       r1 == IF e THEN "EMERGENCY" ELSE "LOW"
       f2 == f1
       r2 == IF mh /\ r1 # "EMERGENCY" THEN "EMERGENCY" ELSE r1
       f3 == IF h THEN Append(f2, "HARMFUL_INTENT") ELSE f2
       r3 == IF h THEN max_by_index(r2, "HIGH") ELSE r2
       f4 == IF m THEN Append(f3, "MEDICATION_REQUEST") ELSE f3
       r4 == IF m /\ r3 = "LOW" THEN "MEDIUM" ELSE r3
       f5 == IF d THEN Append(f4, "DIAGNOSIS_REQUEST") ELSE f4
       r5 == IF d /\ r4 = "LOW" THEN "MEDIUM" ELSE r4
   IN  SafetyCheck(r5 \notin {"EMERGENCY", "HIGH"}, r5, f5)

\* SafetyFilter.check_input; en is self.enabled
check_input(en, text) ==
   IF ~en THEN SafetyCheck(TRUE, "LOW", <<>>)
   ELSE
   LET e  == check_patterns(text, EMERGENCY_KEYWORDS)
       mh == check_patterns(text, MENTAL_HEALTH_CRISIS_KEYWORDS)
       h  == check_patterns(text, HARMFUL_KEYWORDS)
       m  == check_patterns(text, MEDICATION_KEYWORDS)
       d  == check_patterns(text, DIAGNOSIS_KEYWORDS)
       f1 == IF e THEN <<"EMERGENCY">> ELSE <<>>
       r1 == IF e THEN "EMERGENCY" ELSE "LOW"
       f2 == IF mh THEN Append(f1, "MENTAL_HEALTH_CRISIS") ELSE f1
       r2 == IF mh /\ r1 # "EMERGENCY" THEN "EMERGENCY" ELSE r1
       f3 == IF h THEN Append(f2, "HARMFUL_INTENT") ELSE f2
       r3 == IF h THEN max_by_index(r2, "HIGH") ELSE r2
       f4 == IF m THEN Append(f3, "MEDICATION_REQUEST") ELSE f3
       r4 == IF m /\ r3 = "LOW" THEN "MEDIUM" ELSE r3
       f5 == IF d THEN Append(f4, "DIAGNOSIS_REQUEST") ELSE f4
       r5 == IF d /\ r4 = "LOW" THEN "MEDIUM" ELSE r4
   IN  SafetyCheck(r5 \notin {"EMERGENCY", "HIGH"}, r5, f5)

\* SafetyFilter.check_output
check_output(en, response) ==
   IF ~en THEN SafetyCheck(TRUE, "LOW", <<>>)
   ELSE
   LET dos  == Search(dosage_pattern, response)
       diag == Search(diagnosis_pattern, response)
       f1 == IF dos THEN <<"MEDICATION_REQUEST">> ELSE <<>>
       r1 == IF dos THEN "MEDIUM" ELSE "LOW"
       f2 == IF diag THEN Append(f1, "DIAGNOSIS_REQUEST") ELSE f1
       r2 == IF diag THEN "MEDIUM" ELSE r1
   IN  SafetyCheck(Len(f2) = 0, r2, f2)

\* get_emergency_response with its two tests, safety.py:204 and 215, in the other order
get_emergency_response_emergency_first(flags) ==
   IF "EMERGENCY" \in Range(flags) THEN EmergencyScript
   ELSE IF "MENTAL_HEALTH_CRISIS" \in Range(flags) THEN CrisisScript
   ELSE <<>>

\* SafetyFilter.get_emergency_response
get_emergency_response(flags) ==
   IF "MENTAL_HEALTH_CRISIS" \in Range(flags) THEN CrisisScript
   ELSE IF "EMERGENCY" \in Range(flags) THEN EmergencyScript
   ELSE <<>>

\* the dict of add_disclaimer
disclaimers(risk_level) ==
   CASE risk_level = "LOW"       -> Disclaimer_LOW
     [] risk_level = "MEDIUM"    -> Disclaimer_MEDIUM
     [] risk_level = "HIGH"      -> Disclaimer_HIGH
     [] risk_level = "EMERGENCY" -> Disclaimer_EMERGENCY

\* add_disclaimer without the test `disclaimer not in response` of safety.py:242
add_disclaimer_unguarded(response, risk_level) == response \o disclaimers(risk_level)

\* SafetyFilter.add_disclaimer
add_disclaimer(response, risk_level) ==
   LET disclaimer == disclaimers(risk_level)
   IN  IF disclaimer # <<>> /\ ~Contains(response, disclaimer)
       THEN response \o disclaimer
       ELSE response

-----------------------------------------------------------------------------
(* The texts of the model.  sanitize_input, check_input and check_output are *)
(* pure: their values on these texts are computed once, as tables of         *)
(* <<argument, ..., value>>, and looked up.                                  *)

\* the texts a user types
UserInputs == {InHeadache, InChestPain, InStroke, InWantToDie, InHurt, InDosage, InBlank}

\* the texts the provider answers a generate call with
LLMTexts == {OutRest, OutDosage}

Sanitized == {<<u, sanitize_input(u)>> : u \in UserInputs}

CleanInputs == {p[2] : p \in Sanitized}

InputChecks == {<<en, t, check_input(en, t)>> : en \in BOOLEAN, t \in CleanInputs}

OutputChecks == {<<en, t, check_output(en, t)>> : en \in BOOLEAN, t \in LLMTexts}

\* sanitize_input(user_input)
sanitized(user_input) == (CHOOSE p \in Sanitized : p[1] = user_input)[2]

\* check_input without the test of self.enabled at safety.py:115-120
input_check_always_on(en, text) ==
   (CHOOSE p \in InputChecks : p[1] = TRUE /\ p[2] = text)[3]

\* SafetyFilter(enabled).check_input(text)
input_check_of(en, text) == (CHOOSE p \in InputChecks : p[1] = en /\ p[2] = text)[3]

\* SafetyFilter(enabled).check_output(response)
output_check_of(en, response) ==
   (CHOOSE p \in OutputChecks : p[1] = en /\ p[2] = response)[3]

-----------------------------------------------------------------------------
(* prompts.py: PromptManager *)

\* PromptManager.get_system_prompt with the default tone: the text of
\* SYSTEM_PROMPT_V1.template, which no operation inspects, as one atom
get_system_prompt == <<"<SYSTEM_PROMPT_V1.template>">>

\* format_conversation with the new user turn put before the history
format_conversation_user_first(user_message, history_messages) ==
   <<[role |-> "system", content |-> get_system_prompt]>>
      \o <<[role |-> "user", content |-> user_message]>>
      \o history_messages

\* PromptManager.format_conversation
format_conversation(user_message, history_messages) ==
   <<[role |-> "system", content |-> get_system_prompt]>>
      \o history_messages
      \o <<[role |-> "user", content |-> user_message]>>

-----------------------------------------------------------------------------
(* llm_client.py: LLMClient *)

\* Python's None, where a text is expected
None == <<"<None>">>

NoExc == [type |-> "none", msg |-> <<>>]
Exc(type, msg) == [type |-> type, msg |-> msg]

\* llm_client.py:36  stop_after_attempt(3)
stop_after_attempt == 3

\* what the provider does in successive attempts of one generate call: it fails
\* `failures` times, then answers `text`
ProviderRuns == [failures : 0..stop_after_attempt, text : LLMTexts]

\* the body of LLMClient.generate, one attempt
generate_once(run, attempt) ==
   IF attempt <= run.failures
   THEN [kind |-> "raise", text |-> None,
         exc |-> Exc("LLMClientError", GenerateErrPrefix \o ProviderErrMsg)]
   ELSE [kind |-> "return", text |-> run.text, exc |-> NoExc]

\* the @retry decoration of LLMClient.generate: every exception is retried, and after
\* the last attempt tenacity raises its own RetryError (reraise is not set)
RECURSIVE generate(_, _)
generate(run, attempt) ==
   LET r == generate_once(run, attempt)
   IN  IF r.kind = "return" THEN r @@ [attempts |-> attempt, client |-> "LLMClient"]
       ELSE IF attempt >= stop_after_attempt
       THEN [kind |-> "raise", text |-> None, exc |-> Exc("RetryError", RetryErrMsg),
             attempts |-> attempt, client |-> "LLMClient"]
       ELSE generate(run, attempt + 1)

\* a transport handed to HealthChatbot(llm_client=...) that fails as the transport
\* contract says: generate raises LLMClientError
contract_generate ==
   [kind |-> "raise", text |-> None,
    exc |-> Exc("LLMClientError", GenerateErrPrefix \o ProviderErrMsg),
    attempts |-> 1, client |-> "injected"]

\* every way one call of self.llm_client.generate can end
GenerateResults == {generate(run, 1) : run \in ProviderRuns} \cup {contract_generate}

\* the calls of generate that the provider answers at the first attempt
Answers == {r \in GenerateResults : r.kind = "return" /\ r.attempts = 1}

\* the chunks the provider streams (an empty chunk is one whose text is empty)
ProviderStreams == {<<>>, <<ChunkA>>, <<ChunkA, <<>>, ChunkB>>}

\* the exceptions LLMClient.generate_stream raises
StreamErrors ==
   {Exc("LLMClientError", NotConfiguredMsg),
    Exc("LLMClientError", StreamErrPrefix \o ProviderErrMsg)}

-----------------------------------------------------------------------------
(* chatbot.py: HealthChatbot *)

\* self.max_history (chatbot.py:63 sets 10): the number of exchanges kept, checked
\* here with a short window so that a few turns fill it
max_history == 1

\* the number of chat and chat_stream calls of one run: enough to overflow the window
MaxTurns == max_history + 1

Message(role, content, message_id) ==
   [role |-> role, content |-> content, message_id |-> message_id]

ChatResponse(content, success, risk_level, flags, was_filtered, error_message) ==
   [content |-> content, success |-> success, risk_level |-> risk_level,
    flags |-> flags, was_filtered |-> was_filtered, error_message |-> error_message]

\* seq[-n:]
LastN(seq, n) == IF Len(seq) <= n THEN seq ELSE SubSeq(seq, Len(seq) - n + 1, Len(seq))

\* _add_to_history trimming with self.history[:self.max_history * 2]
add_to_history_keep_oldest(s, role, content) ==
   LET appended == Append(s.history, Message(role, content, s.created + 1))
   IN  [history |-> IF Len(appended) > max_history * 2
                    THEN SubSeq(appended, 1, max_history * 2)
                    ELSE appended,
        created |-> s.created + 1]

\* _add_to_history trimming with self.history[-(self.max_history * 2 + 1):]
add_to_history_odd_window(s, role, content) ==
   LET appended == Append(s.history, Message(role, content, s.created + 1))
   IN  [history |-> IF Len(appended) > max_history * 2
                    THEN LastN(appended, max_history * 2 + 1)
                    ELSE appended,
        created |-> s.created + 1]

\* HealthChatbot._add_to_history on s = [history, created]; message_id is the ordinal
\* of the Message among those created
add_to_history(s, role, content) ==
   LET appended == Append(s.history, Message(role, content, s.created + 1))
   IN  [history |-> IF Len(appended) > max_history * 2
                    THEN LastN(appended, max_history * 2)
                    ELSE appended,
        created |-> s.created + 1]

\* HealthChatbot._get_history_messages
get_history_messages(hist) ==
   LET recent == LastN(hist, max_history * 2)
   IN  [i \in DOMAIN recent |-> [role |-> recent[i].role, content |-> recent[i].content]]

\* list(set(flags)): the distinct flags, in the iteration order of the set
list_set(flags, order) == SelectSeq(order, LAMBDA f : f \in Range(flags))

\* class ContentFlag, in declaration order
ContentFlag ==
   <<"EMERGENCY", "MEDICATION_REQUEST", "DIAGNOSIS_REQUEST",
     "MENTAL_HEALTH_CRISIS", "HARMFUL_INTENT", "CHILD_SAFETY">>

Reverse(s) == [i \in DOMAIN s |-> s[Len(s) + 1 - i]]

\* iteration orders of a set of flags: two that put every pair of flags both ways
\* round (no response of the texts tried holds more than two distinct flags)
SetOrders == {ContentFlag, Reverse(ContentFlag)}

NoCheck == [is_safe |-> TRUE, risk_level |-> "NONE", flags |-> <<>>]
NoResponse == ChatResponse(None, FALSE, "NONE", <<>>, FALSE, None)

\* how the body of a call ended: it returned a response, or raised exc
Returned(s, response) ==
   [history |-> s.history, created |-> s.created, response |-> response, exc |-> NoExc]
Raised(s, exc) ==
   [history |-> s.history, created |-> s.created, response |-> NoResponse, exc |-> exc]

\* an exception raised by a step of chat itself (SpecFault only)
FaultExc == Exc("RuntimeError", FaultMsg)

\* chatbot.py:75-81
chat_empty ==
   ChatResponse(RephraseMessage, FALSE, "LOW", <<>>, FALSE, None)

\* chatbot.py:89
is_emergency(input_check) == input_check.risk_level = "EMERGENCY"

\* chatbot.py:90-102 without the two _add_to_history calls
chat_emergency_unrecorded(s, clean_input, input_check, fault) ==
   Returned(s, ChatResponse(get_emergency_response(input_check.flags), TRUE,
                            "EMERGENCY", input_check.flags, TRUE, None))

\* chatbot.py:90-102
chat_emergency(s, clean_input, input_check, fault) ==
   LET emergency_response == get_emergency_response(input_check.flags)
       s1 == add_to_history(s, "user", clean_input)
       s2 == add_to_history(s1, "assistant", emergency_response)
   IN  IF fault \in {"get_emergency_response", "history_user"} THEN Raised(s, FaultExc)
       ELSE IF fault = "history_assistant" THEN Raised(s1, FaultExc)
       ELSE Returned(s2, ChatResponse(emergency_response, TRUE, "EMERGENCY",
                                      input_check.flags, TRUE, None))

\* chatbot.py:118-127 with the user turn recorded before the return
chat_llm_error_recorded(s, clean_input, e) ==
   Returned(add_to_history(s, "user", clean_input),
            ChatResponse(FallbackMessage, FALSE, "LOW", <<>>, FALSE, e.msg))

\* chatbot.py:118-127
chat_llm_error(s, clean_input, e) ==
   Returned(s, ChatResponse(FallbackMessage, FALSE, "LOW", <<>>, FALSE, e.msg))

\* chatbot.py:129-148
chat_reply(s, clean_input, input_check, response_text, output_check, order, fault) ==
   LET risk_level == max(input_check.risk_level, output_check.risk_level)
       final_response == add_disclaimer(response_text, risk_level)
       s1 == add_to_history(s, "user", clean_input)
       s2 == add_to_history(s1, "assistant", final_response)
   IN  IF fault \in {"check_output", "add_disclaimer", "history_user"}
       THEN Raised(s, FaultExc)
       ELSE IF fault = "history_assistant" THEN Raised(s1, FaultExc)
       ELSE Returned(s2, ChatResponse(final_response, TRUE, risk_level,
                                      list_set(input_check.flags \o output_check.flags, order),
                                      ~output_check.is_safe, None))

\* what a chat call did besides its result: the branch it took, the values of its
\* locals, and the transport call it made (tr), if it made one
info(path, clean_input, input_check, output_check, messages, calls, tr) ==
   [path |-> path, clean_input |-> clean_input, input_check |-> input_check,
    output_check |-> output_check, messages |-> messages, calls |-> calls,
    attempts |-> IF calls = 0 THEN 0 ELSE tr.attempts,
    client |-> IF calls = 0 THEN "none" ELSE tr.client,
    tr_exc |-> IF calls = 0 THEN NoExc ELSE tr.exc, caught |-> NoExc]

\* chatbot.py:129-148: chat once the transport has answered and check_output has
\* returned output_check
chat_answered(s, clean_input, input_check, messages, tr, output_check, order, fault) ==
   chat_reply(s, clean_input, input_check, tr.text, output_check, order, fault)
      @@ info("ok", clean_input, input_check, output_check, messages, 1, tr)

\* chatbot.py:111-148: the transport call on messages, which ends as tr, and what
\* follows it
chat_generate(en, s, clean_input, input_check, messages, tr, order, fault) ==
   IF tr.kind = "raise" /\ tr.exc.type = "LLMClientError"
   THEN chat_llm_error(s, clean_input, tr.exc)
           @@ info("llm_error", clean_input, input_check, NoCheck, messages, 1, tr)
   ELSE IF tr.kind = "raise"
   THEN Raised(s, tr.exc)
           @@ info("raised", clean_input, input_check, NoCheck, messages, 1, tr)
   ELSE chat_answered(s, clean_input, input_check, messages, tr,
                      output_check_of(en, tr.text), order, fault)

\* chatbot.py:88-148: chat once check_input has returned input_check
chat_checked(en, s, clean_input, input_check, tr, order, fault) ==
   IF is_emergency(input_check)
   THEN chat_emergency(s, clean_input, input_check, fault)
           @@ info("emergency", clean_input, input_check, NoCheck, <<>>, 0, tr)
   ELSE IF fault = "format_conversation"
   THEN Raised(s, FaultExc)
           @@ info("raised", clean_input, input_check, NoCheck, <<>>, 0, tr)
   ELSE chat_generate(en, s, clean_input, input_check,
                      format_conversation(clean_input, get_history_messages(s.history)),
                      tr, order, fault)

\* chatbot.py:75-148 without the test for an empty input at lines 75-78
chat_sanitized_unchecked(en, s, clean_input, tr, order, fault) ==
   chat_checked(en, s, clean_input, input_check_of(en, clean_input), tr, order, fault)

\* chatbot.py:75-148: chat once sanitize_input has returned clean_input
chat_sanitized(en, s, clean_input, tr, order, fault) ==
   IF clean_input = <<>>
   THEN Returned(s, chat_empty) @@ info("empty", clean_input, NoCheck, NoCheck, <<>>, 0, tr)
   ELSE IF fault = "check_input"
   THEN Raised(s, FaultExc) @@ info("raised", clean_input, NoCheck, NoCheck, <<>>, 0, tr)
   ELSE chat_checked(en, s, clean_input, input_check_of(en, clean_input), tr, order, fault)

\* the try body of chat, chatbot.py:72-148.  s = [history, created]; tr is how the
\* transport call ends if it is made; fault names the step that raises, or is "none"
chat_try(en, s, user_input, tr, order, fault) ==
   IF fault = "sanitize_input"
   THEN Raised(s, FaultExc) @@ info("raised", None, NoCheck, NoCheck, <<>>, 0, tr)
   ELSE chat_sanitized(en, s, sanitized(user_input), tr, order, fault)

\* chat without its except Exception clause
chat_except_reraise(body) == body

\* the except Exception clause of chat, chatbot.py:150-158, applied to the way the
\* try body ended
chat_except(body) ==
   IF body.exc = NoExc THEN body
   ELSE [body EXCEPT !.response = ChatResponse(UnexpectedMessage, FALSE, "LOW", <<>>,
                                               FALSE, body.exc.msg),
                     !.exc = NoExc,
                     !.caught = body.exc,
                     !.path = "unexpected"]

\* HealthChatbot.chat
chat(en, s, user_input, tr, order, fault) ==
   chat_except(chat_try(en, s, user_input, tr, order, fault))
-----------------------------------------------------------------------------
(* chatbot.py: chat_stream, a generator.  gen is the generator object: pc is *)
(* where it is suspended, and each next() of the caller runs it to its next *)
(* yield or to its return.                                                  *)

NoGen ==
   [pc |-> "none", user_input |-> <<>>, clean_input |-> <<>>, input_check |-> NoCheck,
    messages |-> <<>>, calls |-> 0, delivered |-> <<>>,
    full_response |-> <<>>, yielded |-> <<>>, result |-> NoResponse,
    caught |-> NoExc, hist_before |-> <<>>, created_before |-> 0,
    hist_after |-> <<>>, created_after |-> 0]

IsPrefix(p, q) == Len(p) <= Len(q) /\ SubSeq(q, 1, Len(p)) = p

\* llm_client.py:114-123: one next() on generate_stream when the provider streams
\* `stream` and pos of its chunks were consumed: a chunk whose text is empty is passed
\* over, the next one is yielded, and the end of the stream ends the generator
RECURSIVE generate_stream(_, _)
generate_stream(stream, pos) ==
   IF pos = Len(stream)
   THEN [kind |-> "stop", text |-> <<>>, delivered |-> stream, error |-> NoExc]
   ELSE IF stream[pos + 1] = <<>> THEN generate_stream(stream, pos + 1)
   ELSE [kind |-> "yield", text |-> stream[pos + 1],
         delivered |-> SubSeq(stream, 1, pos + 1), error |-> NoExc]

\* what one next() on the transport's generator can do once the provider delivered
\* `delivered`: go on with any stream that starts so, or raise (llm_client.py:96-97
\* before the first chunk only, llm_client.py:125-127 at any chunk)
TransportEvents(delivered) ==
   {generate_stream(st, Len(delivered)) : st \in {q \in ProviderStreams : IsPrefix(delivered, q)}}
      \cup {[kind |-> "raise", text |-> <<>>, delivered |-> delivered, error |-> e] :
               e \in {x \in StreamErrors : x.msg = NotConfiguredMsg => delivered = <<>>}}

\* chatbot.py:202-211 with user_input recorded in place of clean_input
stream_finish_raw(g, s) ==
   LET s1 == add_to_history(s, "user", g.user_input)
       s2 == add_to_history(s1, "assistant", g.full_response)
   IN  [s |-> s2,
        g |-> [g EXCEPT !.pc = "returned",
                        !.result = ChatResponse(g.full_response, TRUE,
                                                g.input_check.risk_level,
                                                g.input_check.flags, FALSE, None),
                        !.hist_after = s2.history, !.created_after = s2.created]]

\* chatbot.py:202-211: the history update and the return of a completed stream
stream_finish(g, s) ==
   LET s1 == add_to_history(s, "user", g.clean_input)
       s2 == add_to_history(s1, "assistant", g.full_response)
   IN  [s |-> s2,
        g |-> [g EXCEPT !.pc = "returned",
                        !.result = ChatResponse(g.full_response, TRUE,
                                                g.input_check.risk_level,
                                                g.input_check.flags, FALSE, None),
                        !.hist_after = s2.history, !.created_after = s2.created]]

\* chatbot.py:213-215: the except clause up to its yield
stream_except(g, s, e) ==
   LET error_msg == ErrorPrefix \o e.msg \o ErrorSuffix
   IN  [s |-> s,
        g |-> [g EXCEPT !.pc = "yielded_error", !.caught = e,
                        !.yielded = Append(@, error_msg)]]

\* chatbot.py:196-211: the stream is exhausted
stream_end(g, s) ==
   LET disclaimer == add_disclaimer(<<>>, g.input_check.risk_level)
   IN  IF disclaimer # <<>>
       THEN [s |-> s,
             g |-> [g EXCEPT !.pc = "yielded_disclaimer",
                             !.yielded = Append(@, disclaimer)]]
       ELSE stream_finish(g, s)

\* the for loop of chat_stream with the two history updates of chatbot.py:203-204 made
\* at every fragment, before its yield
stream_advance_recording(g, s, ev) ==
   IF ev.kind = "raise" THEN stream_except(g, s, ev.error)
   ELSE IF ev.kind = "stop" THEN stream_end([g EXCEPT !.delivered = ev.delivered], s)
   ELSE [s |-> add_to_history(add_to_history(s, "user", g.clean_input),
                              "assistant", g.full_response \o ev.text),
         g |-> [g EXCEPT !.pc = "yielded_chunk", !.delivered = ev.delivered,
                         !.full_response = @ \o ev.text,
                         !.yielded = Append(@, ev.text)]]

\* chatbot.py:188-200: from the head of the for loop to the next yield, or through the
\* disclaimer to the return, when the transport does ev
stream_advance(g, s, ev) ==
   IF ev.kind = "raise" THEN stream_except(g, s, ev.error)
   ELSE IF ev.kind = "stop" THEN stream_end([g EXCEPT !.delivered = ev.delivered], s)
   ELSE [s |-> s,
         g |-> [g EXCEPT !.pc = "yielded_chunk", !.delivered = ev.delivered,
                         !.full_response = @ \o ev.text,
                         !.yielded = Append(@, ev.text)]]

\* chatbot.py:165-194: chat_stream once check_input has returned input_check, up to
\* its first yield or its return
stream_checked(g, s, ev) ==
   IF is_emergency(g.input_check)
   THEN [s |-> s,
         g |-> [g EXCEPT !.pc = "yielded_emergency",
                         !.yielded = <<get_emergency_response(g.input_check.flags)>>]]
   ELSE stream_advance(
           [g EXCEPT !.messages = format_conversation(g.clean_input,
                                     get_history_messages(s.history)),
                     !.calls = 1],
           s, ev)

\* chatbot.py:164: chat_stream once sanitize_input has returned clean_input
stream_sanitized(en, g, s, clean_input, ev) ==
   stream_checked([g EXCEPT !.clean_input = clean_input,
                            !.input_check = input_check_of(en, clean_input),
                            !.hist_before = s.history, !.created_before = s.created],
                  s, ev)

\* chatbot.py:163-194: the first next(), from the top of chat_stream to its first yield
\* or its return
stream_first(en, g, s, ev) ==
   stream_sanitized(en, g, s, sanitized(g.user_input), ev)

\* chatbot.py:171-177: the return after the emergency block was yielded
stream_return_emergency(g, s) ==
   [s |-> s,
    g |-> [g EXCEPT !.pc = "returned",
                    !.result = ChatResponse(g.yielded[1], TRUE, "EMERGENCY",
                                            g.input_check.flags, TRUE, None),
                    !.hist_after = s.history, !.created_after = s.created]]

\* chatbot.py:216-222: the return after the error fragment was yielded
stream_return_error(g, s) ==
   [s |-> s,
    g |-> [g EXCEPT !.pc = "returned",
                    !.result = ChatResponse(g.full_response \o g.yielded[Len(g.yielded)],
                                            FALSE, "LOW", <<>>, FALSE, g.caught.msg),
                    !.hist_after = s.history, !.created_after = s.created]]

\* chatbot.py:202-211 after the disclaimer was yielded, without line 200
stream_after_disclaimer_dropped(g, s) == stream_finish(g, s)

\* chatbot.py:200-211: after the disclaimer was yielded
stream_after_disclaimer(g, s) ==
   stream_finish([g EXCEPT !.full_response = @ \o g.yielded[Len(g.yielded)]], s)

-----------------------------------------------------------------------------
(* The session *)

VARIABLES
   enabled,           \* SafetyFilter.enabled
   history,           \* HealthChatbot.history
   created,           \* the number of Message objects created so far
   cleared_at,        \* created, as it was at the last clear_history
   turn,              \* the operation made last, if it was a chat call: its arguments
                      \* and how it ended
   gen,               \* the operation made last, if it was a chat_stream call: its
                      \* generator
   turns,             \* the number of chat and chat_stream calls made
   emergency_inputs,  \* the sanitized inputs that check_input classified EMERGENCY
   probe              \* the call made last on a SafetyFilter method by itself: its
                      \* arguments and what it returned

vars == <<enabled, history, created, cleared_at, turn, gen, turns, emergency_inputs, probe>>

\* the steps of chat that can raise in SpecFault
FaultSteps ==
   {"sanitize_input", "check_input", "get_emergency_response", "format_conversation",
    "check_output", "add_disclaimer", "history_user", "history_assistant"}

NoTurn ==
   [op |-> "none", user_input |-> <<>>, fault |-> "none",
    hist_before |-> <<>>, created_before |-> 0,
    history |-> <<>>, created |-> 0, response |-> NoResponse, exc |-> NoExc,
    path |-> "none", clean_input |-> <<>>, input_check |-> NoCheck,
    output_check |-> NoCheck, messages |-> <<>>, calls |-> 0, attempts |-> 0,
    client |-> "none", tr_exc |-> NoExc, caught |-> NoExc]

NoProbe ==
   [op |-> "none", text |-> <<>>, risk_level |-> "NONE", flags |-> <<>>,
    check |-> NoCheck, out |-> <<>>, again |-> <<>>]

session == [history |-> history, created |-> created]

\* HealthChatbot.__init__, chatbot.py:55-63, with either setting of
\* settings.enable_safety_filter
Init ==
   /\ enabled \in BOOLEAN
   /\ history = <<>>
   /\ created = 0
   /\ cleared_at = 0
   /\ turn = NoTurn
   /\ gen = NoGen
   /\ turns = 0
   /\ emergency_inputs = {}
   /\ probe = NoProbe

Classified(input_check, clean_input) ==
   IF input_check.risk_level = "EMERGENCY"
   THEN emergency_inputs \cup {clean_input}
   ELSE emergency_inputs

\* the generator is suspended at a yield, or not started
Suspended ==
   gen.pc \in {"created", "yielded_chunk", "yielded_disclaimer",
               "yielded_emergency", "yielded_error"}

\* one call of chat(user_input).  The calls of a session follow one another, as the
\* application makes them (app/streamlit_app.py:434-440): a generator is run to its
\* end, or dropped, before the next call
ChatStep(user_input, tr, order, fault) ==
   /\ turns < MaxTurns
   /\ ~Suspended
   /\ \E r \in {chat(enabled, session, user_input, tr, order, fault)} :
          /\ history' = r.history
          /\ created' = r.created
          /\ turn' = r @@ [op |-> "chat", user_input |-> user_input, fault |-> fault,
                           hist_before |-> history, created_before |-> created]
          /\ emergency_inputs' = Classified(r.input_check, r.clean_input)
   /\ gen' = NoGen
   /\ turns' = turns + 1
   /\ UNCHANGED <<enabled, cleared_at, probe>>

Chat(user_input, tr, order) == ChatStep(user_input, tr, order, "none")

ChatFault(user_input, tr, fault) == ChatStep(user_input, tr, ContentFlag, fault)

\* chat_stream(user_input): the call creates the generator and runs nothing
StreamCall(user_input) ==
   /\ turns < MaxTurns
   /\ ~Suspended
   /\ gen' = [NoGen EXCEPT !.pc = "created", !.user_input = user_input]
   /\ turn' = NoTurn
   /\ turns' = turns + 1
   /\ UNCHANGED <<enabled, history, created, cleared_at, emergency_inputs, probe>>

Resume(r) ==
   /\ gen' = r.g
   /\ history' = r.s.history
   /\ created' = r.s.created
   /\ UNCHANGED <<enabled, cleared_at, turn, turns, probe>>

\* the first next() on the generator
StreamFirst(ev) ==
   /\ gen.pc = "created"
   /\ \E r \in {stream_first(enabled, gen, session, ev)} :
          /\ Resume(r)
          /\ emergency_inputs' = Classified(r.g.input_check, r.g.clean_input)

\* a later next(), by the place the generator is suspended at
StreamNextChunk(ev) ==
   /\ gen.pc = "yielded_chunk"
   /\ Resume(stream_advance(gen, session, ev))
   /\ UNCHANGED emergency_inputs

StreamAfterDisclaimer ==
   /\ gen.pc = "yielded_disclaimer"
   /\ Resume(stream_after_disclaimer(gen, session))
   /\ UNCHANGED emergency_inputs

StreamAfterEmergency ==
   /\ gen.pc = "yielded_emergency"
   /\ Resume(stream_return_emergency(gen, session))
   /\ UNCHANGED emergency_inputs

StreamAfterError ==
   /\ gen.pc = "yielded_error"
   /\ Resume(stream_return_error(gen, session))
   /\ UNCHANGED emergency_inputs

\* the caller drops the generator before it is exhausted: close() raises GeneratorExit
\* at the yield, which except Exception does not catch
StreamClose ==
   /\ Suspended
   /\ gen' = [gen EXCEPT !.pc = "closed"]
   /\ UNCHANGED <<enabled, history, created, cleared_at, turn, turns, emergency_inputs,
                  probe>>

\* HealthChatbot.clear_history
ClearHistory ==
   /\ ~Suspended
   /\ history' = <<>>
   /\ cleared_at' = created
   /\ turn' = NoTurn
   /\ gen' = NoGen
   /\ UNCHANGED <<enabled, created, turns, emergency_inputs, probe>>

Next ==
   \/ \E u \in UserInputs, tr \in GenerateResults, order \in SetOrders : Chat(u, tr, order)
   \/ \E u \in UserInputs : StreamCall(u)
   \/ \E ev \in TransportEvents(gen.delivered) : StreamFirst(ev)
   \/ \E ev \in TransportEvents(gen.delivered) : StreamNextChunk(ev)
   \/ StreamAfterDisclaimer
   \/ StreamAfterEmergency
   \/ StreamAfterError
   \/ StreamClose
   \/ ClearHistory

Spec == Init /\ [][Next]_vars

\* the session when any step of chat may raise
NextFault ==
   \/ \E u \in UserInputs, tr \in Answers, f \in FaultSteps : ChatFault(u, tr, f)
   \/ \E u \in UserInputs, tr \in GenerateResults, order \in SetOrders : Chat(u, tr, order)
   \/ ClearHistory

SpecFault == Init /\ [][NextFault]_vars

\* chat(user_input) called while a chat_stream generator is suspended between two
\* fragments: the generator keeps its place, and goes on afterwards
ChatWhileSuspended(user_input, tr) ==
   /\ turns < MaxTurns
   /\ gen.pc = "yielded_chunk"
   /\ \E r \in {chat(enabled, session, user_input, tr, ContentFlag, "none")} :
          /\ history' = r.history
          /\ created' = r.created
          /\ turn' = r @@ [op |-> "chat", user_input |-> user_input, fault |-> "none",
                           hist_before |-> history, created_before |-> created]
          /\ emergency_inputs' = Classified(r.input_check, r.clean_input)
   /\ turns' = turns + 1
   /\ UNCHANGED <<enabled, cleared_at, gen, probe>>

\* the session when chat may also be called while a generator is suspended
NextInterleaved ==
   \/ \E u \in UserInputs, tr \in Answers : ChatWhileSuspended(u, tr)
   \/ \E u \in UserInputs, tr \in Answers : Chat(u, tr, ContentFlag)
   \/ \E u \in UserInputs : StreamCall(u)
   \/ \E ev \in TransportEvents(gen.delivered) : StreamFirst(ev)
   \/ \E ev \in TransportEvents(gen.delivered) : StreamNextChunk(ev)
   \/ StreamAfterDisclaimer
   \/ StreamAfterEmergency
   \/ StreamAfterError
   \/ StreamClose
   \/ ClearHistory

SpecInterleaved == Init /\ [][NextInterleaved]_vars
-----------------------------------------------------------------------------
(* safety.py: the methods of a SafetyFilter called by themselves, on texts   *)
(* that match every combination of the pattern groups                        *)

\* the pattern groups of check_input, in the order it tries them, each with its
\* patterns, its flag, and a text that matches it
Groups ==
   << [patterns |-> EMERGENCY_KEYWORDS, flag |-> "EMERGENCY", text |-> PhEmergency],
      [patterns |-> MENTAL_HEALTH_CRISIS_KEYWORDS, flag |-> "MENTAL_HEALTH_CRISIS",
       text |-> PhCrisis],
      [patterns |-> HARMFUL_KEYWORDS, flag |-> "HARMFUL_INTENT", text |-> PhHarmful],
      [patterns |-> MEDICATION_KEYWORDS, flag |-> "MEDICATION_REQUEST",
       text |-> PhMedication],
      [patterns |-> DIAGNOSIS_KEYWORDS, flag |-> "DIAGNOSIS_REQUEST", text |-> PhDiagnosis] >>

\* the texts of the chosen groups after a neutral one, a comma and a space between
RECURSIVE Compose(_, _)
Compose(chosen, i) ==
   IF i > Len(Groups) THEN <<>>
   ELSE (IF i \in chosen THEN <<",", " ">> \o Groups[i].text ELSE <<>>)
           \o Compose(chosen, i + 1)

\* the texts given to check_input: one for each set of groups
InputTexts == {PhNeutral \o Compose(chosen, 1) : chosen \in SUBSET DOMAIN Groups}

\* the texts given to check_output
OutputTexts == {OutRest, OutDosage, OutDiagnosis, OutBoth}

\* check_input and check_output on these texts, computed once
InputTextChecks == {<<en, t, check_input(en, t)>> : en \in BOOLEAN, t \in InputTexts}

OutputTextChecks == {<<en, t, check_output(en, t)>> : en \in BOOLEAN, t \in OutputTexts}

\* the lists of flags given to get_emergency_response: every list of at most two
\* distinct flags
FlagLists ==
   {<<>>} \cup {<<f>> : f \in Range(ContentFlag)}
      \cup {p \in Range(ContentFlag) \X Range(ContentFlag) : p[1] # p[2]}

\* the texts given to add_disclaimer: with no disclaimer, and with one in them already
DisclaimerTexts ==
   {<<>>, OutRest, OutRest \o Disclaimer_MEDIUM, OutRest \o Disclaimer_HIGH,
    Disclaimer_MEDIUM \o OutRest}

\* SafetyFilter(enabled).check_input(text)
CheckInput(text) ==
   /\ probe' = [NoProbe EXCEPT
                   !.op = "check_input", !.text = text,
                   !.check = (CHOOSE p \in InputTextChecks :
                                 p[1] = enabled /\ p[2] = text)[3]]
   /\ UNCHANGED <<enabled, history, created, cleared_at, turn, gen, turns, emergency_inputs>>

\* SafetyFilter(enabled).check_output(response)
CheckOutput(response) ==
   /\ probe' = [NoProbe EXCEPT
                   !.op = "check_output", !.text = response,
                   !.check = (CHOOSE p \in OutputTextChecks :
                                 p[1] = enabled /\ p[2] = response)[3]]
   /\ UNCHANGED <<enabled, history, created, cleared_at, turn, gen, turns, emergency_inputs>>

\* SafetyFilter.get_emergency_response(flags)
GetEmergencyResponse(flags) ==
   /\ probe' = [NoProbe EXCEPT !.op = "get_emergency_response", !.flags = flags,
                               !.out = get_emergency_response(flags)]
   /\ UNCHANGED <<enabled, history, created, cleared_at, turn, gen, turns, emergency_inputs>>

\* SafetyFilter.add_disclaimer(response, risk_level), and add_disclaimer again on what
\* it returned
AddDisclaimer(response, risk_level) ==
   /\ \E once \in {add_disclaimer(response, risk_level)} :
         probe' = [NoProbe EXCEPT !.op = "add_disclaimer", !.text = response,
                                  !.risk_level = risk_level, !.out = once,
                                  !.again = add_disclaimer(once, risk_level)]
   /\ UNCHANGED <<enabled, history, created, cleared_at, turn, gen, turns, emergency_inputs>>

\* the texts given to sanitize_input: the empty text, whitespace and a control
\* character only, runs of whitespace around two words, control characters between
\* and inside words, a control character and a line feed in a sentence, and a text
\* longer than max_length whose character at max_length is a space
SanitizeTexts ==
   {<<>>,
    InBlank,
    <<" "," ","t","w","o"," "," "," ","w","o","r","d","s","<TAB>","<CR>","<LF>">>,
    <<"a","<NUL>"," ","<U+007F>"," ","b","<U+0085>","c">>,
    InStroke,
    [i \in 1..(max_length + 5) |-> IF i = max_length THEN " " ELSE "a"]}

\* the texts given to check_input that hold an emergency indicator in an ordinary
\* word form, in a sentence that matches nothing else
WordFormTexts ==
   {<<"m","y"," ","f","r","i","e","n","d"," ","i","s"," ","s","u","i","c","i","d","a","l">>,
    <<"a"," ","f","i","l","m"," ","a","b","o","u","t"," ","s","u","i","c","i","d","e">>,
    <<"f","o","o","d"," ","p","o","i","s","o","n","i","n","g">>,
    <<"h","a","d"," ","a","n","a","p","h","y","l","a","x","i","s"," ","o","n","c","e">>,
    <<"h","e"," ","h","a","s"," ","s","e","i","z","u","r","e","s">>}

\* sanitize_input(text), and sanitize_input again on what it returned
SanitizeInput(text) ==
   /\ \E once \in {sanitize_input(text)} :
         probe' = [NoProbe EXCEPT !.op = "sanitize_input", !.text = text, !.out = once,
                                  !.again = sanitize_input(once)]
   /\ UNCHANGED <<enabled, history, created, cleared_at, turn, gen, turns, emergency_inputs>>

\* SafetyFilter(enabled).check_input(text) on a text of WordFormTexts
CheckWordForm(text) ==
   /\ probe' = [NoProbe EXCEPT !.op = "check_word_form", !.text = text,
                               !.check = check_input(enabled, text)]
   /\ UNCHANGED <<enabled, history, created, cleared_at, turn, gen, turns, emergency_inputs>>

NextSafety ==
   \/ \E t \in InputTexts : CheckInput(t)
   \/ \E t \in OutputTexts : CheckOutput(t)
   \/ \E flags \in FlagLists : GetEmergencyResponse(flags)
   \/ \E t \in DisclaimerTexts, level \in Range(RiskLevel) : AddDisclaimer(t, level)
   \/ \E t \in SanitizeTexts : SanitizeInput(t)
   \/ \E t \in WordFormTexts : CheckWordForm(t)

SpecSafety == Init /\ [][NextSafety]_vars
-----------------------------------------------------------------------------
(* Properties *)

\* a text with its upper-case letters replaced by the lower-case ones
Fold(text) ==
   [i \in DOMAIN text |->
      IF \E j \in DOMAIN UpperLetters : UpperLetters[j] = text[i]
      THEN LowerLetters[CHOOSE j \in DOMAIN UpperLetters : UpperLetters[j] = text[i]]
      ELSE text[i]]

\* the user inputs whose sanitized text, letter case set aside, matches an emergency
\* pattern
EmergencyInputs ==
   {p[1] : p \in {q \in Sanitized :
                     \E i \in DOMAIN EMERGENCY_KEYWORDS :
                        Search(EMERGENCY_KEYWORDS[i], Fold(q[2]))}}

\* the last n entries of a history, as <<role, content>> pairs
Tail2(hist) ==
   IF Len(hist) < 2 THEN <<>>
   ELSE <<<<hist[Len(hist) - 1].role, hist[Len(hist) - 1].content>>,
          <<hist[Len(hist)].role, hist[Len(hist)].content>>>>

\* the message lists handed to the transport by the operation made last
TransportLists ==
   (IF turn.calls > 0 THEN {turn.messages} ELSE {})
      \cup (IF gen.calls > 0 THEN {gen.messages} ELSE {})

\* the later of two risk levels in the order LOW < MEDIUM < HIGH < EMERGENCY
Highest(a, b) == IF RiskIndex(a) >= RiskIndex(b) THEN a ELSE b

\* C1: with the safety filter enabled, a chat call whose sanitized input matches an
\* emergency pattern in any letter case has check_input return risk EMERGENCY with
\* the flag EMERGENCY, and makes no call to the LLM transport
C1_EmergencyShortCircuit ==
   (turn.op = "chat" /\ enabled /\ turn.user_input \in EmergencyInputs)
      => /\ turn.input_check.risk_level = "EMERGENCY"
         /\ "EMERGENCY" \in Range(turn.input_check.flags)
         /\ turn.calls = 0
         /\ turn.messages = <<>>

\* C1 witness: chat was called with the upper-case "CHEST PAIN" input and answered
\* without a transport call
C1_Witness ==
   /\ turn.op = "chat"
   /\ enabled
   /\ turn.user_input = InChestPain
   /\ turn.user_input \in EmergencyInputs
   /\ turn.input_check.risk_level = "EMERGENCY"
   /\ turn.calls = 0

\* C2: no message list handed to the LLM transport, by chat or chat_stream, contains
\* the text of a user input that was classified EMERGENCY, history entries of later
\* turns included
C2_NoEmergencyTextReachesTransport ==
   \A msgs \in TransportLists :
      \A i \in DOMAIN msgs : msgs[i].content \notin emergency_inputs

\* C3: on a successful non-emergency chat turn the risk_level of the response is the
\* higher of the input check's and the output check's levels in the order
\* LOW < MEDIUM < HIGH < EMERGENCY
C3_RiskIsDeclarationMax ==
   (turn.op = "chat" /\ turn.path = "ok" /\ turn.response.success)
      => turn.response.risk_level =
            Highest(turn.input_check.risk_level, turn.output_check.risk_level)

\* C4: the history never holds more than 2*max_history messages; once more than
\* 2*max_history messages were appended since the last clear it holds exactly
\* 2*max_history; and the messages it holds are the ones appended last, in the
\* order they were appended
C4_HistoryBounded ==
   /\ Len(history) <= 2 * max_history
   /\ created - cleared_at > 2 * max_history => Len(history) = 2 * max_history
   /\ created - cleared_at <= 2 * max_history => Len(history) = created - cleared_at
   /\ \A i \in DOMAIN history : history[i].message_id = created - Len(history) + i

\* C4 witness: more than 2*max_history messages were appended since the last clear
C4_Witness ==
   /\ created - cleared_at > 2 * max_history
   /\ Len(history) = 2 * max_history

C6_StreamEmergencyRecorded ==
   (gen.pc = "returned" /\ gen.input_check.risk_level = "EMERGENCY")
      => /\ Len(gen.yielded) = 1
         /\ gen.yielded[1] \in {CrisisScript, EmergencyScript}
         /\ gen.calls = 0
         /\ gen.created_after = gen.created_before + 2
         /\ Tail2(gen.hist_after) =
               <<<<"user", gen.clean_input>>, <<"assistant", gen.yielded[1]>>>>

\* C7: when the transport raises after chat_stream forwarded zero or more fragments,
\* chat_stream yields one error fragment and ends, and the history has gained the user
\* turn and an assistant turn holding the partial text followed by the error note
C7_StreamErrorRecorded ==
   (gen.pc = "returned" /\ gen.caught # NoExc)
      => /\ gen.yielded[Len(gen.yielded)] = ErrorPrefix \o gen.caught.msg \o ErrorSuffix
         /\ gen.created_after = gen.created_before + 2
         /\ Tail2(gen.hist_after) =
               <<<<"user", gen.clean_input>>,
                 <<"assistant", gen.full_response \o gen.yielded[Len(gen.yielded)]>>>>

\* the exception a chat call caught, in either of its except clauses
ChatCaught ==
   IF turn.caught # NoExc THEN turn.caught
   ELSE IF turn.tr_exc.type = "LLMClientError" THEN turn.tr_exc
   ELSE NoExc

\* C8: no user-visible text contains the message of the caught exception: not the
\* content of the ChatResponse chat returns, nor any fragment chat_stream yields
C8_NoRawExceptionText ==
   /\ (turn.op = "chat" /\ ChatCaught # NoExc)
         => ~Contains(turn.response.content, ChatCaught.msg)
   /\ gen.caught # NoExc
         => \A i \in DOMAIN gen.yielded : ~Contains(gen.yielded[i], gen.caught.msg)

\* C9: chat raises nothing to its caller; whichever step failed, it returns a
\* ChatResponse with success false, risk LOW and no flags
C9_ChatNeverRaises ==
   turn.op = "chat"
      => /\ turn.exc = NoExc
         /\ turn.response # NoResponse
         /\ ChatCaught # NoExc
               => /\ ~turn.response.success
                  /\ turn.response.risk_level = "LOW"
                  /\ turn.response.flags = <<>>

\* C9 witness: the second history update of a chat call raised, and chat returned
C9_Witness ==
   /\ turn.op = "chat"
   /\ turn.fault = "history_assistant"
   /\ turn.caught = FaultExc
   /\ turn.exc = NoExc
   /\ ~turn.response.success

\* C10: when the transport's generate raises LLMClientError, chat returns success
\* false, risk LOW, no flags and the fixed fallback text, which holds nothing of the
\* error; the error detail is in error_message only; and the history is as it was
C10_TransportErrorFallback ==
   (turn.op = "chat" /\ turn.calls = 1 /\ turn.tr_exc.type = "LLMClientError")
      => /\ ~turn.response.success
         /\ turn.response.risk_level = "LOW"
         /\ turn.response.flags = <<>>
         /\ turn.response.content = FallbackMessage
         /\ ~Contains(turn.response.content, turn.tr_exc.msg)
         /\ ~Contains(turn.response.content, ProviderErrMsg)
         /\ turn.response.error_message = turn.tr_exc.msg
         /\ turn.history = turn.hist_before
         /\ turn.created = turn.created_before

\* C10 witness: a chat call on a history that holds an earlier turn had its transport
\* raise LLMClientError
C10_Witness ==
   /\ turn.op = "chat"
   /\ turn.calls = 1
   /\ turn.tr_exc.type = "LLMClientError"
   /\ turn.hist_before # <<>>
   /\ turn.response.error_message = GenerateErrPrefix \o ProviderErrMsg

\* the user inputs that sanitize_input turns into the empty text
BlankInputs == {p[1] : p \in {q \in Sanitized : q[2] = <<>>}}

\* C11: a chat call whose input is empty after sanitizing returns success false with
\* the rephrase message, risk LOW and no flags, without a call to the classifier or
\* to the transport, and leaves the history as it was
C11_EmptyInputRejected ==
   (turn.op = "chat" /\ turn.user_input \in BlankInputs)
      => /\ turn.response =
               ChatResponse(RephraseMessage, FALSE, "LOW", <<>>, FALSE, None)
         /\ turn.exc = NoExc
         /\ turn.input_check = NoCheck
         /\ turn.output_check = NoCheck
         /\ turn.calls = 0
         /\ turn.messages = <<>>
         /\ turn.history = turn.hist_before
         /\ turn.created = turn.created_before
         /\ history = turn.hist_before

\* C11 witness: chat was called with an input of whitespace and control characters
\* on a history that holds an earlier turn
C11_Witness ==
   /\ turn.op = "chat"
   /\ turn.user_input = InBlank
   /\ turn.user_input \in BlankInputs
   /\ turn.hist_before # <<>>
   /\ ~turn.response.success
   /\ history = turn.hist_before

\* the generator of chat_stream has run to a yield or to its return
StreamStarted ==
   gen.pc \in {"yielded_emergency", "yielded_chunk", "yielded_disclaimer",
               "yielded_error", "returned"}

\* C12: a chat_stream call whose input is empty after sanitizing makes no call to the
\* transport and records no user and assistant pair in the history
C12_StreamEmptyInputIgnored ==
   (gen.user_input \in BlankInputs /\ StreamStarted)
      => /\ gen.calls = 0
         /\ gen.messages = <<>>
         /\ history = gen.hist_before
         /\ created = gen.created_before

\* the fragments the transport produces from the chunks the provider delivered: the
\* chunks that hold text, in their order
Fragments(delivered) == SelectSeq(delivered, LAMBDA c : c # <<>>)

\* the trailing fragments that belong to a risk level: none for LOW, the MEDIUM note,
\* the HIGH warning
Trailing(risk_level) ==
   CASE risk_level = "MEDIUM" -> <<Disclaimer_MEDIUM>>
     [] risk_level = "HIGH" -> <<Disclaimer_HIGH>>
     [] OTHER -> <<>>

\* C13: on a chat_stream turn that is not an emergency and whose transport stream ends
\* without an error, the caller receives the fragments of the transport in the order
\* they were produced, then the one disclaimer of the input's risk level if it has
\* one; the history is as before the turn while fragments are still being yielded,
\* and at the return it has gained the user turn and an assistant turn that holds the
\* concatenation of all the fragments yielded
C13_StreamOrderThenHistory ==
   /\ (gen.pc = "yielded_chunk")
         => /\ gen.yielded = Fragments(gen.delivered)
            /\ history = gen.hist_before
            /\ created = gen.created_before
   /\ (gen.pc = "yielded_disclaimer")
         => /\ gen.yielded = Fragments(gen.delivered)
                                \o Trailing(gen.input_check.risk_level)
            /\ history = gen.hist_before
            /\ created = gen.created_before
   /\ (gen.pc = "returned" /\ gen.caught = NoExc
          /\ gen.input_check.risk_level # "EMERGENCY")
         => /\ gen.yielded = Fragments(gen.delivered)
                                \o Trailing(gen.input_check.risk_level)
            /\ gen.delivered \in ProviderStreams
            /\ gen.hist_after =
                  LastN(gen.hist_before
                           \o <<Message("user", gen.clean_input, gen.created_before + 1),
                                Message("assistant", join(<<>>, gen.yielded),
                                        gen.created_before + 2)>>,
                        2 * max_history)
            /\ history = gen.hist_after

\* C13 witness: a stream of two fragments on a HIGH input returned after its warning
C13_Witness ==
   /\ gen.pc = "returned"
   /\ gen.caught = NoExc
   /\ gen.input_check.risk_level = "HIGH"
   /\ gen.yielded = <<ChunkA, ChunkB, Disclaimer_HIGH>>
   /\ Len(gen.hist_after) = 2
   /\ gen.hist_after[2].content = ChunkA \o ChunkB \o Disclaimer_HIGH

\* the level each pattern group contributes, in the order of Groups
GroupLevel == <<"EMERGENCY", "EMERGENCY", "HIGH", "MEDIUM", "MEDIUM">>

\* for each text given to check_input, the groups one of whose patterns it matches
Matching ==
   {<<t, {i \in DOMAIN Groups : check_patterns(t, Groups[i].patterns)}>> : t \in InputTexts}

MatchingGroups(text) == (CHOOSE p \in Matching : p[1] = text)[2]

\* the highest of a set of levels in the order LOW < MEDIUM < HIGH < EMERGENCY, LOW
\* for the empty set
HighestOf(levels) ==
   IF levels = {} THEN "LOW"
   ELSE CHOOSE l \in levels : \A k \in levels : RiskIndex(l) >= RiskIndex(k)

\* C14: with the filter enabled, on a text for every combination of matching pattern
\* groups, check_input's risk level is the highest of the levels of the matching
\* groups (emergency and crisis EMERGENCY, harmful HIGH, medication and diagnosis
\* MEDIUM, LOW when none matches), and its flags are the flags of the matching
\* groups, each once
C14_RiskIsHighestFlagsAccumulate ==
   /\ {p[2] : p \in Matching} = SUBSET DOMAIN Groups
   /\ (probe.op = "check_input" /\ enabled)
         => /\ probe.check.risk_level =
                  HighestOf({GroupLevel[i] : i \in MatchingGroups(probe.text)})
            /\ Range(probe.check.flags) =
                  {Groups[i].flag : i \in MatchingGroups(probe.text)}
            /\ Len(probe.check.flags) = Cardinality(MatchingGroups(probe.text))

\* C14 witness: check_input on a text that matches the harmful, medication and
\* diagnosis groups and no other returned HIGH with the three flags
C14_Witness ==
   /\ probe.op = "check_input"
   /\ enabled
   /\ MatchingGroups(probe.text) = {3, 4, 5}
   /\ probe.check.risk_level = "HIGH"
   /\ Len(probe.check.flags) = 3

\* C15: every SafetyCheck that check_input or check_output returns has is_safe false
\* exactly when its risk level is HIGH or EMERGENCY
C15_UnsafeIffHighOrEmergency ==
   probe.op \in {"check_input", "check_output"}
      => (~probe.check.is_safe <=> probe.check.risk_level \in {"HIGH", "EMERGENCY"})

\* the result of a check that finds nothing
AlwaysSafe == SafetyCheck(TRUE, "LOW", <<>>)

\* C16: with the safety filter disabled, check_input and check_output return is_safe
\* true, risk LOW and no flags whatever the text, texts that match emergency patterns
\* included, and no chat or chat_stream call takes the emergency path
C16_DisabledFilterPassesAll ==
   ~enabled
      => /\ (turn.op = "chat" /\ turn.user_input \notin BlankInputs)
               => /\ turn.input_check = AlwaysSafe
                  /\ turn.path \in {"ok", "llm_error", "raised", "unexpected"}
                  /\ turn.calls = 1
         /\ (turn.op = "chat" /\ turn.path = "ok") => turn.output_check = AlwaysSafe
         /\ StreamStarted
               => /\ gen.input_check = AlwaysSafe
                  /\ gen.pc # "yielded_emergency"
                  /\ gen.calls = 1
         /\ emergency_inputs = {}

\* C16 witness: with the filter disabled, a chat call on the "CHEST PAIN" input was
\* answered by the transport with a dosage text, and both checks found nothing
C16_Witness ==
   /\ ~enabled
   /\ turn.op = "chat"
   /\ turn.user_input = InChestPain
   /\ turn.user_input \in EmergencyInputs
   /\ turn.path = "ok"
   /\ turn.response.content = OutDosage
   /\ turn.input_check = AlwaysSafe
   /\ turn.output_check = AlwaysSafe

\* C17: get_emergency_response returns one script and not both: the crisis script
\* whenever MENTAL_HEALTH_CRISIS is among the flags, EMERGENCY present or not, and the
\* emergency script when EMERGENCY is among them and MENTAL_HEALTH_CRISIS is not
C17_CrisisScriptTakesPrecedence ==
   probe.op = "get_emergency_response"
      => /\ "MENTAL_HEALTH_CRISIS" \in Range(probe.flags)
               => /\ probe.out = CrisisScript
                  /\ ~Contains(probe.out, EmergencyScript)
         /\ ("EMERGENCY" \in Range(probe.flags)
                /\ "MENTAL_HEALTH_CRISIS" \notin Range(probe.flags))
               => /\ probe.out = EmergencyScript
                  /\ ~Contains(probe.out, CrisisScript)

\* C17 witness: get_emergency_response was called with both flags, EMERGENCY first,
\* and returned the crisis script
C17_Witness ==
   /\ probe.op = "get_emergency_response"
   /\ probe.flags = <<"EMERGENCY", "MENTAL_HEALTH_CRISIS">>
   /\ probe.out = CrisisScript
   /\ probe.out # EmergencyScript

\* C18: on a successful chat turn that is not an emergency the content is the text of
\* the LLM followed by the suffix of the risk level of the response (nothing for LOW,
\* the MEDIUM note, the HIGH warning), and when the input was classified HIGH the
\* content carries the HIGH warning
C18_ContentCarriesLevelSuffix ==
   (turn.op = "chat" /\ turn.path = "ok" /\ turn.response.success)
      => /\ \E t \in LLMTexts :
               turn.response.content = join(<<>>, <<t>> \o Trailing(turn.response.risk_level))
         /\ turn.input_check.risk_level = "HIGH"
               => Contains(turn.response.content, Disclaimer_HIGH)

\* C19: add_disclaimer applied to its own result, with the same risk level, returns
\* that result: the suffix of a level is not appended a second time
C19_AddDisclaimerIdempotent ==
   probe.op = "add_disclaimer"
      => /\ probe.again = probe.out
         /\ probe.out \in {probe.text, probe.text \o disclaimers(probe.risk_level)}

\* C19 witness: add_disclaimer appended the MEDIUM note to a text without it, and
\* the second call on the result appended nothing
C19_Witness ==
   /\ probe.op = "add_disclaimer"
   /\ probe.risk_level = "MEDIUM"
   /\ probe.text = OutRest
   /\ probe.out = OutRest \o Disclaimer_MEDIUM
   /\ probe.again = probe.out

\* one system message, then the roles and contents of a history in its order, then a
\* user turn
Composed(hist, user_message) ==
   <<[role |-> "system", content |-> get_system_prompt]>>
      \o [i \in DOMAIN hist |-> [role |-> hist[i].role, content |-> hist[i].content]]
      \o <<[role |-> "user", content |-> user_message]>>

\* C20: on every turn that reaches the transport, the message list handed to it is one
\* system message, then the history as it was at the start of the turn (at most
\* 2*max_history entries, in their order), then the new user turn; and the history is
\* still that of the start of the turn after the list was composed, until the turn
\* records its own two messages
C20_MessagesAreSystemHistoryUser ==
   /\ (turn.op = "chat" /\ turn.calls > 0)
         => /\ turn.messages = Composed(turn.hist_before, turn.clean_input)
            /\ Len(turn.messages) <= 2 * max_history + 2
            /\ turn.path # "ok" => turn.history = turn.hist_before
            /\ turn.path = "ok"
                  => \A i \in DOMAIN turn.history :
                        \/ turn.history[i] \in Range(turn.hist_before)
                        \/ turn.history[i].message_id > turn.created_before
   /\ (StreamStarted /\ gen.calls > 0)
         => /\ gen.messages = Composed(gen.hist_before, gen.clean_input)
            /\ Len(gen.messages) <= 2 * max_history + 2
            /\ gen.pc # "returned" => history = gen.hist_before
            /\ (gen.pc = "returned" /\ gen.caught # NoExc) => history = gen.hist_before

\* C20 witness: a chat call on a history that holds a full window was answered, and
\* the list it handed to the transport had the window between the system message and
\* the new user turn
C20_Witness ==
   /\ turn.op = "chat"
   /\ turn.calls = 1
   /\ turn.path = "ok"
   /\ Len(turn.hist_before) = 2 * max_history
   /\ Len(turn.messages) = 2 * max_history + 2
   /\ turn.messages[2].content = turn.hist_before[1].content
   /\ turn.messages[Len(turn.messages)] = [role |-> "user", content |-> turn.clean_input]

\* C21: sanitize_input applied to its own result returns that result
C21_SanitizeIdempotent ==
   probe.op = "sanitize_input" => probe.again = probe.out

\* C21 witness: sanitize_input cut a text longer than max_length and marked the cut,
\* and the second call on the result, itself longer than max_length, changed nothing
C21_Witness ==
   /\ probe.op = "sanitize_input"
   /\ Len(probe.text) > max_length
   /\ Len(probe.out) = max_length + Len(Ellipsis)
   /\ probe.out # probe.text
   /\ probe.again = probe.out

\* C22: with the filter enabled, check_input classifies EMERGENCY, with the flag
\* EMERGENCY, a benign sentence that holds one of the words suicidal, suicide,
\* poisoning, anaphylaxis, seizures
C22_WordFormsAreEmergencies ==
   (probe.op = "check_word_form" /\ enabled)
      => /\ probe.check.risk_level = "EMERGENCY"
         /\ "EMERGENCY" \in Range(probe.check.flags)

\* C23: when LLMClient.generate fails, after its three attempts too, the exception
\* that reaches chat is an LLMClientError, and chat answers with the fallback
\* response of a transport failure, not with the one of an unexpected error
C23_GenerateFailsWithClientError ==
   (turn.op = "chat" /\ turn.calls = 1 /\ turn.client = "LLMClient"
       /\ turn.tr_exc # NoExc)
      => /\ turn.tr_exc.type = "LLMClientError"
         /\ turn.response.content = FallbackMessage
         /\ turn.response.content # UnexpectedMessage

\* C24: when the caller drops a chat_stream generator before it is exhausted, the
\* history is what it was before the turn.  A generator dropped after one or more
\* fragments has left the history and the message counter as it found them; a
\* generator dropped before its first next() has run nothing, and dropping it
\* changes nothing
C24_AbandonedStreamLeavesHistory ==
   /\ [](gen.pc = "closed"
            => IF gen.yielded # <<>>
               THEN history = gen.hist_before /\ created = gen.created_before
               ELSE gen.calls = 0 /\ gen.input_check = NoCheck)
   /\ [][gen'.pc = "closed" => history' = history /\ created' = created]_vars

\* C24 witness: a generator was dropped after two fragments of a stream on a history
\* that held an earlier turn
C24_Witness ==
   /\ gen.pc = "closed"
   /\ gen.yielded = <<ChunkA, ChunkB>>
   /\ gen.hist_before # <<>>
   /\ history = gen.hist_before

\* C25: the history has even length and is made of pairs, a user turn followed by the
\* assistant turn appended right after it; after trimming at the bound too, and when
\* a chat call ran while a chat_stream generator was suspended between two fragments.
\* (A chat call, and the two appends of a generator, are one step each: in every
\* state no call is executing and no generator is between its appends.)
C25_HistoryIsPairs ==
   /\ Len(history) % 2 = 0
   /\ \A i \in DOMAIN history :
         i % 2 = 1
            => /\ history[i].role = "user"
               /\ history[i + 1].role = "assistant"
               /\ history[i + 1].message_id = history[i].message_id + 1

\* C25 witness: a chat call was answered while a generator was suspended after a
\* fragment; the generator then ran to its return, and its two appends pushed the
\* pair of the chat call out of a full window
C25_Witness ==
   /\ gen.pc = "returned"
   /\ gen.caught = NoExc
   /\ turn.op = "chat"
   /\ turn.path = "ok"
   /\ turn.created > gen.created_before
   /\ Len(history) = 2 * max_history
   /\ history[Len(history)].content = gen.full_response
   /\ history[1].message_id > turn.created

\* C26: check_input returns the risk EMERGENCY only with the flag EMERGENCY or
\* MENTAL_HEALTH_CRISIS among its flags, so the canned reply that chat returns and
\* chat_stream yields on the emergency path is one of the two scripts and not the
\* empty text
C26_EmergencyReplyNotEmpty ==
   /\ (turn.op = "chat" /\ turn.input_check.risk_level = "EMERGENCY")
         => /\ Range(turn.input_check.flags) \cap {"EMERGENCY", "MENTAL_HEALTH_CRISIS"} # {}
            /\ turn.path = "emergency"
            /\ turn.response.content # <<>>
            /\ turn.response.content \in {CrisisScript, EmergencyScript}
   /\ (StreamStarted /\ gen.input_check.risk_level = "EMERGENCY")
         => /\ Range(gen.input_check.flags) \cap {"EMERGENCY", "MENTAL_HEALTH_CRISIS"} # {}
            /\ Len(gen.yielded) = 1
            /\ gen.yielded[1] # <<>>
            /\ gen.yielded[1] \in {CrisisScript, EmergencyScript}

\* C26 witness: chat_stream was called with "I want to die", which matches a crisis
\* pattern and no emergency pattern, and yielded the crisis script
C26_Witness ==
   /\ gen.pc = "yielded_emergency"
   /\ gen.user_input = InWantToDie
   /\ gen.input_check.risk_level = "EMERGENCY"
   /\ gen.input_check.flags = <<"MENTAL_HEALTH_CRISIS">>
   /\ gen.yielded = <<CrisisScript>>
   /\ CrisisScript # <<>>

\* the user inputs that sanitize_input changes
RawOnly == {p[1] : p \in {q \in Sanitized : q[2] # q[1]}}

\* the contents of the messages of a list
Contents(msgs) == {msgs[i].content : i \in DOMAIN msgs}

\* C27: in every turn of chat and chat_stream the text classified, the text sent to
\* the transport as the new user turn and the text recorded as the user turn are the
\* sanitized input; an input that sanitizing changes is never sent or recorded as it
\* was typed
C27_OnlySanitizedTextIsUsed ==
   /\ (turn.op = "chat" /\ turn.path # "none")
         => /\ turn.clean_input = sanitized(turn.user_input)
            /\ turn.input_check # NoCheck
                  => turn.input_check = input_check_of(enabled, turn.clean_input)
            /\ turn.calls > 0
                  => turn.messages[Len(turn.messages)] =
                        [role |-> "user", content |-> turn.clean_input]
            /\ turn.created > turn.created_before
                  => \E i \in DOMAIN turn.history :
                        turn.history[i] =
                           Message("user", turn.clean_input, turn.created_before + 1)
   /\ StreamStarted
         => /\ gen.clean_input = sanitized(gen.user_input)
            /\ gen.input_check = input_check_of(enabled, gen.clean_input)
            /\ gen.calls > 0
                  => gen.messages[Len(gen.messages)] =
                        [role |-> "user", content |-> gen.clean_input]
            /\ (gen.pc = "returned" /\ gen.created_after > gen.created_before)
                  => \E i \in DOMAIN gen.hist_after :
                        gen.hist_after[i] =
                           Message("user", gen.clean_input, gen.created_before + 1)
   /\ Contents(history) \cap RawOnly = {}
   /\ Contents(turn.messages) \cap RawOnly = {}
   /\ Contents(gen.messages) \cap RawOnly = {}

\* C27 witness: with the filter disabled, chat_stream was called with an input that
\* holds a control character and outer whitespace, and ran to its return: the text
\* sent and the text recorded are the sanitized one
C27_Witness ==
   /\ gen.pc = "returned"
   /\ gen.caught = NoExc
   /\ gen.user_input = InStroke
   /\ gen.user_input \in RawOnly
   /\ gen.clean_input # gen.user_input
   /\ gen.messages[Len(gen.messages)].content = gen.clean_input
   /\ gen.hist_after[Len(gen.hist_after) - 1].content = gen.clean_input
=============================================================================
